---- MODULE Spec2Model ----
(***************************************************************************)
(* Model of the finance_dash backend: the classifier and normaliser of     *)
(* backend/importers.py, the domain records of backend/models.py, the      *)
(* SQLite repository of backend/database.py and the import workflow of     *)
(* backend/services.py.                                                    *)
(*                                                                         *)
(* Representation of Python values:                                        *)
(*   str            a sequence of one-character strings                    *)
(*   None           the tuple <<"None">>                                   *)
(*   float          <<"f", n>>, n the value in hundredths (120.50 is       *)
(*                  <<"f", 12050>>); a quotient that is no whole number of *)
(*                  hundredths is <<"q", n, d>> (n/d hundredths, reduced); *)
(*                  float("nan") is <<"nan">>, the infinities <<"inf">>    *)
(*                  and <<"-inf">>; 0.0 and -0.0 are one value             *)
(*   datetime       [s |-> seconds, us |-> microseconds]                   *)
(***************************************************************************)
EXTENDS Integers, Sequences, FiniteSets, TLC

VARIABLES
    record,          \* SpecRecord: the BankTransactionRecord under test
    classification,  \* SpecRecord: ClassificationResult of classify(record)
    normalised,      \* SpecRecord: outcome of _normalise_record
    pc,              \* SpecRecord: position in the body of load()'s inner loop
    transactions,    \* the rows of the SQLite table `transactions`
    upserted,        \* history: uuid -> the (tx, payload) last upserted under it
    replaced,        \* history: uuids for which an upsert replaced a different row
    uuid_issued,     \* how many uuids uuid4() has generated
    clock,           \* the instant datetime.utcnow() last returned, in half
                     \* seconds since the epoch
    call,            \* the last call: the sheet names of import_workbook, or the
                     \* name and the arguments of another operation
    outcome,         \* what the last call returned or raised
    calls,           \* history: the number of calls made
    persisted,       \* history: the sum of the counts import_workbook returned
    fx_rates,        \* the rows of the SQLite table `fx_rates`
    fx_upserted,     \* history: key -> the rate last upserted under it
    fx_replaced,     \* history: keys for which an upsert replaced another rate
    quotes,          \* the rows of the SQLite table `quotes`
    config           \* AppConfig: the API keys

recordVars == <<record, classification, normalised, pc>>

repoVars == <<transactions, upserted, replaced>>

importVars == <<uuid_issued, clock, call, outcome, calls, persisted>>

marketVars == <<fx_rates, fx_upserted, fx_replaced, quotes, config>>

vars == <<record, classification, normalised, pc, transactions, upserted, replaced,
          uuid_issued, clock, call, outcome, calls, persisted,
          fx_rates, fx_upserted, fx_replaced, quotes, config>>

\* ------------------------------------------------------------------
\* Python values
\* ------------------------------------------------------------------
None == <<"None">>

NaN == <<"nan">>

F(n) == <<"f", n>>

\* float("inf") and float("-inf")
Inf == <<"inf">>

NegInf == <<"-inf">>

\* A float that is neither nan nor infinite.
IsFinite(x) == x[1] \in {"f", "q"}

\* A float that is a number (not nan).
IsNum(x) == x[1] \in {"f", "q", "inf", "-inf"}

\* A raised exception, as the value of the expression that raised it.
Raised(exc) == <<"raised", exc>>

IsRaised(x) == x[1] = "raised"

\* A call that ended by raising, as its outcome.
Raises(exc) == [raised |-> exc]

HasRaised(result) == DOMAIN result = {"raised"}

RECURSIVE GCD(_, _)
GCD(a, b) == IF b = 0 THEN a ELSE GCD(b, a % b)

Abs(n) == IF n < 0 THEN -n ELSE n

\* n/d hundredths as a float value: reduced, the sign on the numerator.
Quot(n, d) ==
    LET g == GCD(Abs(n), Abs(d))
        sn == IF d < 0 THEN -(n \div g) ELSE n \div g
        sd == Abs(d) \div g
    IN  IF sd = 1 THEN F(sn) ELSE <<"q", sn, sd>>

\* A finite float is Num(x) / Den(x) hundredths.
Num(x) == x[2]

Den(x) == IF x[1] = "q" THEN x[3] ELSE 1

\* The sign of a float that is a number: 1, 0 or -1.
Sign(x) ==
    IF x = Inf THEN 1
    ELSE IF x = NegInf THEN -1
    ELSE IF x[2] > 0 THEN 1
    ELSE IF x[2] < 0 THEN -1
    ELSE 0

SignedInf(sign) == IF sign > 0 THEN Inf ELSE NegInf

\* -x
FNeg(x) ==
    IF x = NaN THEN NaN
    ELSE IF x = Inf THEN NegInf
    ELSE IF x = NegInf THEN Inf
    ELSE Quot(-Num(x), Den(x))

\* float + float (exact on finite operands; 0.0 and -0.0 are one value)
FAdd(a, b) ==
    IF a = NaN \/ b = NaN THEN NaN
    ELSE IF ~IsFinite(a) THEN (IF ~IsFinite(b) /\ a # b THEN NaN ELSE a)
    ELSE IF ~IsFinite(b) THEN b
    ELSE Quot(Num(a) * Den(b) + Num(b) * Den(a), Den(a) * Den(b))

\* float - float
FSub(a, b) == FAdd(a, FNeg(b))

\* float / float: ZeroDivisionError on a zero divisor, nan if either is nan.
FDiv(a, b) ==
    IF b = F(0) THEN Raised("ZeroDivisionError")
    ELSE IF a = NaN \/ b = NaN THEN NaN
    ELSE IF ~IsFinite(a) THEN (IF ~IsFinite(b) THEN NaN ELSE SignedInf(Sign(a) * Sign(b)))
    ELSE IF ~IsFinite(b) THEN F(0)
    ELSE Quot(Num(a) * Den(b) * 100, Den(a) * Num(b))

\* float * float
FMul(a, b) ==
    IF a = NaN \/ b = NaN THEN NaN
    ELSE IF ~IsFinite(a) \/ ~IsFinite(b)
         THEN (IF Sign(a) * Sign(b) = 0 THEN NaN ELSE SignedInf(Sign(a) * Sign(b)))
    ELSE Quot(Num(a) * Num(b), Den(a) * Den(b) * 100)

\* `x or 0.0` for an Optional[float]: None and 0.0 are falsy, nan is truthy.
OrZero(x) == IF x = None \/ x = F(0) THEN F(0) ELSE x

\* `x > 0` and `x == 0` on floats: every comparison with nan is False.
Gt0(x) == IsNum(x) /\ Sign(x) > 0

Eq0(x) == x = F(0)

\* bool(x) for an Optional[float] and for an Optional[str]
TruthyFloat(x) == x # None /\ x # F(0)

TruthyStr(s) == s # None /\ s # <<>>

\* ------------------------------------------------------------------
\* str methods
\* ------------------------------------------------------------------
\* A character is a string of one character; a character above U+00FF,
\* which a string of this module cannot hold, is written by the name of
\* its code point ("U+039C" is the Greek capital mu).
\* The texts modelled hold the characters up to U+00FF and, above U+00FF,
\* only the characters this module names: the Unicode spaces of Whitespace
\* and the three letters the letters up to U+00FF are mapped to (capital
\* mu U+039C, its small letter U+03BC, capital y with diaeresis U+0178).
\* Any other character above U+00FF (other letters with a case mapping,
\* such as the dotless i, the long s, the Kelvin sign, the ligatures, Greek
\* and Cyrillic; digits other than 0-9) is outside the texts modelled.
\* The letters str.upper() and str.lower() map one to one, up to U+00FF:
\* A-Z and a-z, U+00C0-U+00DE and U+00E0-U+00FE (without the signs U+00D7
\* and U+00F7).
UpperChars == <<"A","B","C","D","E","F","G","H","I","J","K","L","M",
                "N","O","P","Q","R","S","T","U","V","W","X","Y","Z",
                "À","Á","Â","Ã","Ä","Å","Æ","Ç","È","É","Ê","Ë","Ì","Í","Î",
                "Ï","Ð","Ñ","Ò","Ó","Ô","Õ","Ö","Ø","Ù","Ú","Û","Ü","Ý","Þ">>

LowerChars == <<"a","b","c","d","e","f","g","h","i","j","k","l","m",
                "n","o","p","q","r","s","t","u","v","w","x","y","z",
                "à","á","â","ã","ä","å","æ","ç","è","é","ê","ë","ì","í","î",
                "ï","ð","ñ","ò","ó","ô","õ","ö","ø","ù","ú","û","ü","ý","þ">>

\* The characters str.strip() removes: tab, line feed, vertical tab, form
\* feed, carriage return, the separators 1c-1f, space, next line (85),
\* no-break space (a0) and the Unicode spaces above ff.
Whitespace == {"\t", "\n", "", "\f", "\r", "", "", "", "", " ", "", " ",
               "U+1680", "U+2000", "U+2001", "U+2002", "U+2003", "U+2004", "U+2005",
               "U+2006", "U+2007", "U+2008", "U+2009", "U+200A", "U+2028", "U+2029",
               "U+202F", "U+205F", "U+3000"}

\* The characters float() skips around a numeral: those of str.strip()
\* without the separators 1c-1f.
FloatSpace == Whitespace \ {"", "", "", ""}

\* The characters SQLite skips around a numeral (sqlite3Isspace).
SqlSpace == {"\t", "\n", "", "\f", "\r", " "}

IndexIn(c, chars) == CHOOSE i \in 1..Len(chars) : chars[i] = c

IsIn(c, chars) == \E i \in 1..Len(chars) : chars[i] = c

\* The small letter of each capital letter, and the capital of each small.
ToLower == [c \in {UpperChars[i] : i \in 1..Len(UpperChars)} |-> LowerChars[IndexIn(c, UpperChars)]]

ToUpper == [c \in {LowerChars[i] : i \in 1..Len(LowerChars)} |-> UpperChars[IndexIn(c, LowerChars)]]

\* c.lower(), a str, for a character of the texts modelled: the capital mu
\* and the capital y with diaeresis have their small letters; any other
\* character of the texts modelled is kept.
LowerChar(c) ==
    IF c \in DOMAIN ToLower THEN <<ToLower[c]>>
    ELSE IF c = "U+039C" THEN <<"U+03BC">>
    ELSE IF c = "U+0178" THEN <<"ÿ">>
    ELSE <<c>>

\* c.upper(), a str, for a character of the texts modelled: the sharp s
\* becomes two characters, the micro sign and the small mu the capital mu,
\* the small y with diaeresis its capital; any other character of the texts
\* modelled is kept.
UpperChar(c) ==
    IF c \in DOMAIN ToUpper THEN <<ToUpper[c]>>
    ELSE IF c = "ß" THEN <<"S", "S">>
    ELSE IF c \in {"µ", "U+03BC"} THEN <<"U+039C">>
    ELSE IF c = "ÿ" THEN <<"U+0178">>
    ELSE <<c>>

RECURSIVE MapChars(_, _)
MapChars(s, up) ==
    IF s = <<>> THEN <<>>
    ELSE (IF up THEN UpperChar(Head(s)) ELSE LowerChar(Head(s))) \o MapChars(Tail(s), up)

\* str.lower(), str.upper(), on the texts modelled (no capital sigma, whose
\* small letter depends on its place in the word)
Lower(s) == MapChars(s, FALSE)

Upper(s) == MapChars(s, TRUE)

\* `needle in hay`
Contains(needle, hay) ==
    \E i \in 1..(Len(hay) - Len(needle) + 1) :
        SubSeq(hay, i, i + Len(needle) - 1) = needle

\* s with the characters of `chars` removed at both ends
StripChars(s, chars) ==
    LET keep == {i \in 1..Len(s) : s[i] \notin chars}
    IN  IF keep = {} THEN <<>>
        ELSE SubSeq(s, CHOOSE i \in keep : \A j \in keep : i <= j,
                       CHOOSE i \in keep : \A j \in keep : i >= j)

\* str.strip()
Strip(s) == StripChars(s, Whitespace)

\* s.split(",", 1)[0]
SplitFirstComma(s) ==
    LET commas == {i \in 1..Len(s) : s[i] = ","}
    IN  IF commas = {} THEN s
        ELSE SubSeq(s, 1, (CHOOSE i \in commas : \A j \in commas : i <= j) - 1)

\* ------------------------------------------------------------------
\* String literals of the source
\* ------------------------------------------------------------------
kw_frais == <<"f","r","a","i","s">>

kw_fee == <<"f","e","e">>

CHF == <<"C","H","F">>

note_fee == <<"I","d","e","n","t","i","f","i","e","d"," ","b","a","n","k"," ","f","e","e">>

note_unknown == <<"U","n","a","b","l","e"," ","t","o"," ","i","n","f","e","r"," ",
                  "d","i","r","e","c","t","i","o","n">>

\* Column names of the workbook
col_account_name == <<"a","c","c","o","u","n","t","_","n","a","m","e">>

col_amount_chf == <<"a","m","o","u","n","t","_","c","h","f">>

col_debit == <<"d","e","b","i","t">>

col_credit == <<"c","r","e","d","i","t">>

col_transac_currency == <<"t","r","a","n","s","a","c","_","c","u","r","r","e","n","c","y">>

col_rate == <<"r","a","t","e">>

col_descr_1 == <<"d","e","s","c","r","_","1">>

col_descr_2 == <<"d","e","s","c","r","_","2">>

col_descr_3 == <<"d","e","s","c","r","_","3">>

col_category == <<"c","a","t","e","g","o","r","y">>

s_nan == <<"n","a","n">>

s_snan == <<"s","n","a","n">>

comma_space == <<",", " ">>

\* ------------------------------------------------------------------
\* backend/models.py: BankTransactionRecord
\* ------------------------------------------------------------------
\* The fields the classifier, the normaliser and the repository read.  The
\* remaining fields of the dataclass (account_id, account_holder, the dates,
\* transaction_time, balance, transaction_number, sub_category,
\* micro_category) are copied unchanged from record to row and are left out.
BankTransactionRecord(id, sheet, account, amount, debit, credit, currency, rate, description, category, payload) ==
    [id |-> id, sheet_name |-> sheet, account_name |-> account,
     amount_chf |-> amount, debit |-> debit, credit |-> credit,
     transaction_currency |-> currency, fx_rate |-> rate,
     description |-> description, category |-> category, raw_payload |-> payload]

\* A plausible slip: testing the truthiness of amount_chf instead of
\* `is not None`, which sends an explicit 0.00 to credit - debit.
signed_amount_truthy(r) ==
    IF TruthyFloat(r.amount_chf) THEN r.amount_chf
    ELSE FSub(OrZero(r.credit), OrZero(r.debit))

\* BankTransactionRecord.signed_amount
signed_amount(r) ==
    IF r.amount_chf # None THEN r.amount_chf
    ELSE FSub(OrZero(r.credit), OrZero(r.debit))

\* ------------------------------------------------------------------
\* backend/importers.py: TransactionClassifier
\* ------------------------------------------------------------------
ClassificationResult(type, counterparty, notes) ==
    [inferred_type |-> type, inferred_counterparty |-> counterparty, notes |-> notes]

\* `record.category or ""`
CategoryOrEmpty(r) == IF TruthyStr(r.category) THEN r.category ELSE <<>>

\* The condition of the fee rule.
IsFee(r) ==
    LET description == Lower(r.description)
        category == Lower(CategoryOrEmpty(r))
    IN  \/ Contains(kw_frais, description)
        \/ Contains(kw_fee, description)
        \/ Contains(kw_frais, category)

\* A plausible slip: an absent debit not counted as zero.
_is_inflow_absent_debit(r) ==
    Gt0(OrZero(r.credit)) /\ r.debit # None /\ Eq0(r.debit)

_is_inflow(r) == Gt0(OrZero(r.credit)) /\ Eq0(OrZero(r.debit))

\* A plausible slip: an outflow recognised by its debit alone.
_is_outflow_any_debit(r) == Gt0(OrZero(r.debit))

_is_outflow(r) == Gt0(OrZero(r.debit)) /\ Eq0(OrZero(r.credit))

\* A plausible slip: the segment before the comma returned without strip().
_extract_counterparty_unstripped(r) ==
    IF r.description # <<>>
    THEN LET primary_segment == SplitFirstComma(r.description)
         IN  IF primary_segment # <<>> THEN primary_segment ELSE None
    ELSE None

\* `primary_segment.strip() or None` when the description is not empty
_extract_counterparty(r) ==
    IF r.description # <<>>
    THEN LET primary_segment == Strip(SplitFirstComma(r.description))
         IN  IF primary_segment # <<>> THEN primary_segment ELSE None
    ELSE None

\* A plausible slip: the amount rules tried before the fee rule.
classify_direction_first(r) ==
    IF _is_inflow(r) THEN ClassificationResult("DEPOSIT", _extract_counterparty(r), None)
    ELSE IF _is_outflow(r) THEN ClassificationResult("WITHDRAWAL", _extract_counterparty(r), None)
    ELSE IF IsFee(r) THEN ClassificationResult("FEE", r.account_name, note_fee)
    ELSE ClassificationResult("UNKNOWN", None, note_unknown)

\* A plausible slip: the counterparty of a fee taken from the description.
classify_fee_from_description(r) ==
    IF IsFee(r) THEN ClassificationResult("FEE", _extract_counterparty(r), note_fee)
    ELSE IF _is_inflow(r) THEN ClassificationResult("DEPOSIT", _extract_counterparty(r), None)
    ELSE IF _is_outflow(r) THEN ClassificationResult("WITHDRAWAL", _extract_counterparty(r), None)
    ELSE ClassificationResult("UNKNOWN", None, note_unknown)

\* A plausible slip: the fallback keeps the counterparty of the description.
classify_fallback_counterparty(r) ==
    IF IsFee(r) THEN ClassificationResult("FEE", r.account_name, note_fee)
    ELSE IF _is_inflow(r) THEN ClassificationResult("DEPOSIT", _extract_counterparty(r), None)
    ELSE IF _is_outflow(r) THEN ClassificationResult("WITHDRAWAL", _extract_counterparty(r), None)
    ELSE ClassificationResult("UNKNOWN", _extract_counterparty(r), note_unknown)

\* TransactionClassifier.classify
classify(r) ==
    IF IsFee(r) THEN ClassificationResult("FEE", r.account_name, note_fee)
    ELSE IF _is_inflow(r) THEN ClassificationResult("DEPOSIT", _extract_counterparty(r), None)
    ELSE IF _is_outflow(r) THEN ClassificationResult("WITHDRAWAL", _extract_counterparty(r), None)
    ELSE ClassificationResult("UNKNOWN", None, note_unknown)

\* ------------------------------------------------------------------
\* backend/importers.py: BankExcelImporter._normalise_record
\* ------------------------------------------------------------------
\* A plausible slip: the currency compared without .upper().
NativeApplies_case_sensitive(r) ==
    /\ TruthyStr(r.transaction_currency)
    /\ r.transaction_currency # CHF
    /\ TruthyFloat(r.fx_rate)

\* The condition under which the native amount is computed.
NativeApplies(r) ==
    /\ TruthyStr(r.transaction_currency)
    /\ Upper(r.transaction_currency) # CHF
    /\ TruthyFloat(r.fx_rate)

\* A plausible slip: dividing for every foreign-currency record, with neither
\* the truthiness test of fx_rate nor the except clause.
AmountNative_unguarded(r) ==
    IF TruthyStr(r.transaction_currency) /\ Upper(r.transaction_currency) # CHF
       /\ r.fx_rate # None
    THEN FDiv(signed_amount(r), r.fx_rate)
    ELSE None

\* amount_native: the division, a ZeroDivisionError turned into None.
AmountNative(r) ==
    IF NativeApplies(r)
    THEN LET q == FDiv(signed_amount(r), r.fx_rate)
         IN  IF q = Raised("ZeroDivisionError") THEN None ELSE q
    ELSE None

\* `record.transaction_currency or "CHF"`
CurrencyOrCHF(r) == IF TruthyStr(r.transaction_currency) THEN r.transaction_currency ELSE CHF

\* The NormalisedTransaction, or the exception that left the function.
\* created_at is datetime.utcnow() at construction: `now`.
_normalise_record(r, c, now) ==
    LET amount_native == AmountNative(r)
    IN  IF IsRaised(amount_native) THEN Raises(amount_native[2])
        ELSE [id |-> r.id,
              sheet_name |-> r.sheet_name,
              account_name |-> r.account_name,
              transaction_currency |-> CurrencyOrCHF(r),
              amount_chf |-> signed_amount(r),
              amount_native |-> amount_native,
              fx_rate |-> r.fx_rate,
              description |-> r.description,
              category |-> r.category,
              inferred_type |-> c.inferred_type,
              inferred_counterparty |-> c.inferred_counterparty,
              notes |-> c.notes,
              created_at |-> now]

\* ------------------------------------------------------------------
\* Records the classifier and the normaliser are applied to
\* ------------------------------------------------------------------
d_acme == <<"A","c","m","e"," ","C","o","r","p",","," ","i","n","v","o","i","c","e"," ","1","2","3">>

d_coffee == <<"C","o","f","f","e","e"," ","s","h","o","p">>

d_frais == <<"F","R","A","I","S"," ","d","e"," ","t","e","n","u","e">>

d_transfer == <<" ","T","r","a","n","s","f","e","r"," ",",","r","e","f"," ","7">>

c_fees == <<"F","e","e","s">>

c_frais == <<"F","r","a","i","s"," ","b","a","n","c","a","i","r","e","s">>

c_food == <<"F","o","o","d">>

s_chf_lower == <<"c","h","f">>

USD == <<"U","S","D">>

acct_main == <<"M","a","i","n">>

sheet_crypto == <<"c","r","y","p","t","o","_","t","r","a","n","s","a","c">>

Descriptions == {<<>>, d_acme, d_coffee, d_frais, d_transfer}

Categories == {None, c_fees, c_frais, c_food}

Currencies == {None, <<>>, CHF, s_chf_lower, USD}

RecordInputs ==
    {BankTransactionRecord(1, sheet_crypto, acct_main, a, d, c, cur, fx, desc, cat, <<>>) :
        a \in {None, F(0), F(-9000), NaN},
        d \in {None, F(0), F(4500), NaN},
        c \in {None, F(0), F(12050)},
        cur \in Currencies,
        fx \in {None, F(0), F(90), NaN},
        desc \in Descriptions,
        cat \in Categories}

\* The market-data side before it is used: empty tables, no API key.
NoKeys == [alpha_vantage_key |-> None, coinranking_key |-> None]

MarketIdle ==
    /\ fx_rates = {}
    /\ fx_upserted = <<>>
    /\ fx_replaced = {}
    /\ quotes = {}
    /\ config = NoKeys

\* The instant `datetime.utcnow()` returns in the record specification.
\* The datetime of a clock reading of t half seconds
Instant(t) == [s |-> t \div 2, us |-> (t % 2) * 500000]

Epoch == Instant(0)

\* ------------------------------------------------------------------
\* SpecRecord: the body of load()'s inner loop on one record
\* ------------------------------------------------------------------
InitRecord ==
    /\ record \in RecordInputs
    /\ classification = None
    /\ normalised = None
    /\ pc = "record"
    /\ transactions = {}
    /\ upserted = <<>>
    /\ replaced = {}
    /\ uuid_issued = 0
    /\ clock = 0
    /\ call = <<>>
    /\ outcome = None
    /\ calls = 0
    /\ persisted = 0
    /\ MarketIdle

\* classification = self.classifier.classify(record)
Classify ==
    /\ pc = "record"
    /\ classification' = classify(record)
    /\ pc' = "classified"
    /\ UNCHANGED <<record, normalised>>
    /\ UNCHANGED <<repoVars, importVars, marketVars>>

\* normalised = self._normalise_record(record, classification)
Normalise ==
    /\ pc = "classified"
    /\ normalised' = _normalise_record(record, classification, Epoch)
    /\ pc' = "normalised"
    /\ UNCHANGED <<record, classification>>
    /\ UNCHANGED <<repoVars, importVars, marketVars>>

NextRecord == Classify \/ Normalise

SpecRecord == InitRecord /\ [][NextRecord]_vars

\* ------------------------------------------------------------------
\* Claims on the classifier and the normaliser (SpecRecord)
\* ------------------------------------------------------------------
\* An absent credit or debit counted as zero.
ZeroIfAbsent(x) == IF x = None THEN F(0) ELSE x

\* nat is the float signed / rate (both finite, rate not zero), by
\* cross-multiplication: nat is n/d hundredths and n * rate = signed * 100 * d.
IsQuotientOf(nat, signed, rate) ==
    IF signed = NaN \/ rate = NaN THEN nat = NaN
    ELSE /\ nat[1] \in {"f", "q"}
         /\ nat[2] * rate[2] = signed[2] * 100 * (IF nat[1] = "q" THEN nat[3] ELSE 1)

HasFeeKeyword(s) == Contains(kw_frais, Lower(s)) \/ Contains(kw_fee, Lower(s))

\* C6: the normalised transaction's signed CHF amount is the record's
\* amount_chf when that is present, and otherwise credit minus debit with an
\* absent credit or debit counted as zero.
C6_SignedAmount ==
    pc = "normalised" =>
        /\ ~HasRaised(normalised)
        /\ normalised.amount_chf =
              IF record.amount_chf # None THEN record.amount_chf
              ELSE FSub(ZeroIfAbsent(record.credit), ZeroIfAbsent(record.debit))

\* C6 witness: amount_chf absent, credit 120.50, debit 0 gives 120.50.
C6_Witness ==
    /\ pc = "normalised"
    /\ record.amount_chf = None
    /\ record.credit = F(12050)
    /\ record.debit = F(0)
    /\ normalised.amount_chf = F(12050)

\* C7: the native amount is present exactly when the transaction currency is
\* not CHF (case-insensitively) and the FX rate is present and not zero, and
\* it is then the signed CHF amount divided by the FX rate.
C7_NativeAmount ==
    pc = "normalised" =>
        /\ ~HasRaised(normalised)
        /\ (normalised.amount_native # None) <=>
              /\ Lower(normalised.transaction_currency) # s_chf_lower
              /\ record.fx_rate # None
              /\ record.fx_rate # F(0)
        /\ normalised.amount_native # None =>
              IsQuotientOf(normalised.amount_native, normalised.amount_chf, record.fx_rate)

\* C7 witness: USD, rate 0.90, signed amount -90.00 gives -100.00.
C7_Witness ==
    /\ pc = "normalised"
    /\ record.transaction_currency = USD
    /\ record.fx_rate = F(90)
    /\ normalised.amount_chf = F(-9000)
    /\ normalised.amount_native = F(-10000)

\* C8: normalising a record whose currency is not CHF and whose FX rate is
\* zero does not raise; the native amount is absent and every other field is
\* populated from the record and its classification.
C8_ZeroRate ==
    (/\ pc = "normalised"
     /\ TruthyStr(record.transaction_currency)
     /\ Lower(record.transaction_currency) # s_chf_lower
     /\ record.fx_rate = F(0)) =>
        /\ ~HasRaised(normalised)
        /\ normalised.amount_native = None
        /\ normalised.id = record.id
        /\ normalised.sheet_name = record.sheet_name
        /\ normalised.account_name = record.account_name
        /\ normalised.transaction_currency = record.transaction_currency
        /\ normalised.amount_chf = signed_amount(record)
        /\ normalised.fx_rate = F(0)
        /\ normalised.description = record.description
        /\ normalised.category = record.category
        /\ normalised.inferred_type = classification.inferred_type
        /\ normalised.inferred_counterparty = classification.inferred_counterparty
        /\ normalised.notes = classification.notes
        /\ normalised.created_at = Epoch

\* C8 witness: a USD record with rate 0 has been normalised.
C8_Witness ==
    /\ pc = "normalised"
    /\ record.transaction_currency = USD
    /\ record.fx_rate = F(0)
    /\ record.amount_chf = F(-9000)
    /\ ~HasRaised(normalised)
    /\ normalised.amount_native = None

\* C9: a record whose description contains a fee keyword is classified FEE
\* even when it satisfies the inflow rule or the outflow rule.
C9_FeeFirst ==
    (/\ pc # "record"
     /\ HasFeeKeyword(record.description)
     /\ \/ Gt0(ZeroIfAbsent(record.credit)) /\ Eq0(ZeroIfAbsent(record.debit))
        \/ Gt0(ZeroIfAbsent(record.debit)) /\ Eq0(ZeroIfAbsent(record.credit))) =>
        classification.inferred_type = "FEE"

\* C9 witness: a fee description with credit 120.50 and debit 0 classified FEE.
C9_Witness ==
    /\ pc = "classified"
    /\ record.description = d_frais
    /\ record.credit = F(12050)
    /\ record.debit = F(0)
    /\ classification.inferred_type = "FEE"

\* C10: the fee rule fires whenever the lower-cased description or the
\* lower-cased category contains a fee keyword ("frais", "fee").
C10_FeeKeywordInCategory ==
    (/\ pc # "record"
     /\ \/ HasFeeKeyword(record.description)
        \/ HasFeeKeyword(CategoryOrEmpty(record))) =>
        classification.inferred_type = "FEE"

\* C11 (as claimed): every classification of type FEE has the record's
\* account name as counterparty and no note.
C11_FeeNoNote ==
    (pc # "record" /\ classification.inferred_type = "FEE") =>
        /\ classification.inferred_counterparty = record.account_name
        /\ classification.notes = None

\* C11 (amended): every classification of type FEE has the record's account
\* name as counterparty and the note "Identified bank fee".
C11_FeeCounterpartyAndNote ==
    (pc # "record" /\ classification.inferred_type = "FEE") =>
        /\ classification.inferred_counterparty = record.account_name
        /\ classification.notes = <<"I","d","e","n","t","i","f","i","e","d"," ",
                                    "b","a","n","k"," ","f","e","e">>

\* C11 witness: a fee whose description names another counterparty.
C11_Witness ==
    /\ pc = "classified"
    /\ classification.inferred_type = "FEE"
    /\ record.description = d_frais
    /\ record.debit = F(4500)
    /\ classification.inferred_counterparty = acct_main
    /\ classification.notes # None

\* The text before the first comma of the description, trimmed; None when
\* there is none.
IsCounterpartyOf(c, description) ==
    LET commas == {i \in 1..Len(description) : description[i] = ","}
        stop == IF commas = {} THEN Len(description) + 1
                ELSE CHOOSE i \in commas : \A j \in commas : i <= j
        inked == {i \in 1..(stop - 1) : description[i] \notin Whitespace}
    IN  IF inked = {} THEN c = None
        ELSE \E a, b \in inked :
                /\ \A i \in inked : a <= i /\ i <= b
                /\ c = SubSeq(description, a, b)

\* The record matches no fee keyword, in its description or its category.
NoFeeKeyword(r) ==
    ~HasFeeKeyword(r.description) /\ ~HasFeeKeyword(CategoryOrEmpty(r))

\* C12: a record without fee keyword and with credit > 0 and debit = 0
\* (absent counted as 0) is a DEPOSIT, one with debit > 0 and credit = 0 a
\* WITHDRAWAL; the counterparty is the one of the description, the note absent.
C12_DepositWithdrawal ==
    (pc # "record" /\ NoFeeKeyword(record)) =>
        LET credit == ZeroIfAbsent(record.credit)
            debit == ZeroIfAbsent(record.debit)
            expected == IF credit # NaN /\ credit[2] > 0 /\ debit = F(0) THEN "DEPOSIT"
                        ELSE IF debit # NaN /\ debit[2] > 0 /\ credit = F(0) THEN "WITHDRAWAL"
                        ELSE "other"
        IN  expected # "other" =>
                /\ classification.inferred_type = expected
                /\ IsCounterpartyOf(classification.inferred_counterparty, record.description)
                /\ classification.notes = None

\* C12 witness: a deposit with an absent debit, and its counterparty.
C12_Witness ==
    /\ pc = "classified"
    /\ record.credit = F(12050)
    /\ record.debit = None
    /\ record.description = d_acme
    /\ record.category = c_food
    /\ classification.inferred_type = "DEPOSIT"
    /\ classification.inferred_counterparty = <<"A","c","m","e"," ","C","o","r","p">>

\* No rule of the classifier matches the record.
NoRuleMatches(r) ==
    LET credit == ZeroIfAbsent(r.credit)
        debit == ZeroIfAbsent(r.debit)
    IN  /\ ~HasFeeKeyword(r.description)
        /\ ~Contains(kw_frais, Lower(CategoryOrEmpty(r)))
        /\ ~(credit # NaN /\ credit[2] > 0 /\ debit = F(0))
        /\ ~(debit # NaN /\ debit[2] > 0 /\ credit = F(0))

\* C13 (as claimed): classify always returns one of the four types, and
\* when no rule matches UNKNOWN, no counterparty and the note
\* "direction could not be inferred".
C13_TotalNoteAsClaimed ==
    pc # "record" =>
        /\ ~HasRaised(classification)
        /\ classification.inferred_type \in {"FEE", "DEPOSIT", "WITHDRAWAL", "UNKNOWN"}
        /\ NoRuleMatches(record) =>
              /\ classification.inferred_type = "UNKNOWN"
              /\ classification.inferred_counterparty = None
              /\ classification.notes = <<"d","i","r","e","c","t","i","o","n"," ","c","o","u","l","d"," ",
                                          "n","o","t"," ","b","e"," ","i","n","f","e","r","r","e","d">>

\* C13 (amended): classify always returns one of the four types, and when
\* no rule matches UNKNOWN, no counterparty and the note
\* "Unable to infer direction".
C13_Total ==
    pc # "record" =>
        /\ ~HasRaised(classification)
        /\ classification.inferred_type \in {"FEE", "DEPOSIT", "WITHDRAWAL", "UNKNOWN"}
        /\ NoRuleMatches(record) =>
              /\ classification.inferred_type = "UNKNOWN"
              /\ classification.inferred_counterparty = None
              /\ classification.notes = <<"U","n","a","b","l","e"," ","t","o"," ",
                                          "i","n","f","e","r"," ","d","i","r","e","c","t","i","o","n">>

\* C13 witness: credit and debit both positive, a description with a
\* counterparty, and the result UNKNOWN without counterparty.
C13_Witness ==
    /\ pc = "classified"
    /\ record.credit = F(12050)
    /\ record.debit = F(4500)
    /\ record.description = d_acme
    /\ classification.inferred_type = "UNKNOWN"
    /\ classification.inferred_counterparty = None

\* dict.get(key, default); a dict is a function, {} the empty function.
EmptyDict == <<>>

DictGet(d, k, default) == IF k \in DOMAIN d THEN d[k] ELSE default

\* ------------------------------------------------------------------
\* backend/importers.py: field parsers
\* ------------------------------------------------------------------
\* A cell read by pandas with dtype=str is a str, or float nan when blank.
\* str(value) of a cell
PyStr(v) == IF v = NaN THEN s_nan ELSE v

\* str.replace(c, "") and str.replace(c, d) for one-character c, d
RECURSIVE Remove(_, _)
Remove(s, c) ==
    IF s = <<>> THEN <<>>
    ELSE (IF Head(s) = c THEN <<>> ELSE <<Head(s)>>) \o Remove(Tail(s), c)

RECURSIVE Replace(_, _, _)
Replace(s, c, d) ==
    IF s = <<>> THEN <<>>
    ELSE <<IF Head(s) = c THEN d ELSE Head(s)>> \o Replace(Tail(s), c, d)

DigitChars == <<"0","1","2","3","4","5","6","7","8","9">>

IsDigit(c) == IsIn(c, DigitChars)

RECURSIVE DigitsValue(_)
DigitsValue(s) ==
    IF s = <<>> THEN 0
    ELSE DigitsValue(SubSeq(s, 1, Len(s) - 1)) * 10 + (IndexIn(s[Len(s)], DigitChars) - 1)

RECURSIVE Pow10(_)
Pow10(k) == IF k = 0 THEN 1 ELSE 10 * Pow10(k - 1)

\* A numeral [+-] digits [. digits] [e [+-] digits], with a digit before
\* or after the point: its value, None for any other text.
ParseNumeral(t) ==
    LET signed == t # <<>> /\ t[1] \in {"+", "-"}
        sign == IF signed /\ t[1] = "-" THEN -1 ELSE 1
        body == IF signed THEN Tail(t) ELSE t
        es == {i \in 1..Len(body) : body[i] \in {"e", "E"}}
        epos == IF es = {} THEN Len(body) + 1 ELSE CHOOSE i \in es : \A j \in es : i <= j
        mant == SubSeq(body, 1, epos - 1)
        expo == SubSeq(body, epos + 1, Len(body))
        esigned == expo # <<>> /\ expo[1] \in {"+", "-"}
        edigits == IF esigned THEN Tail(expo) ELSE expo
        e == IF es = {} THEN 0
             ELSE (IF esigned /\ expo[1] = "-" THEN -1 ELSE 1) * DigitsValue(edigits)
        dots == {i \in 1..Len(mant) : mant[i] = "."}
        digits == SelectSeq(mant, IsDigit)
        places == IF dots = {} THEN 0 ELSE Len(mant) - (CHOOSE i \in dots : TRUE)
        k == e - places + 2
    IN  IF /\ \A i \in 1..Len(mant) : IsDigit(mant[i]) \/ mant[i] = "."
           /\ Cardinality(dots) <= 1
           /\ digits # <<>>
           /\ es # {} => (edigits # <<>> /\ \A i \in 1..Len(edigits) : IsDigit(edigits[i]))
        THEN IF k >= 0 THEN F(sign * DigitsValue(digits) * Pow10(k))
             ELSE Quot(sign * DigitsValue(digits), Pow10(-k))
        ELSE None

AllDigits(t) == \A i \in 1..Len(t) : IsDigit(t[i])

\* float(Decimal(t)), None when Decimal raises InvalidOperation or float
\* raises ValueError.  Decimal strips the text and drops every underscore;
\* it takes a numeral, "inf" / "infinity", "nan" and "snan" with optional
\* digits, in any case and signed; float() refuses a signalling nan.
\* (Digits other than 0-9 and values beyond the integers of the checker are
\* outside the texts modelled.)
DecimalToFloat(t) ==
    LET u == Remove(Strip(t), "_")
        signed == u # <<>> /\ u[1] \in {"+", "-"}
        negative == signed /\ u[1] = "-"
        body == Lower(IF signed THEN Tail(u) ELSE u)
    IN  IF body \in {<<"i","n","f">>, <<"i","n","f","i","n","i","t","y">>}
        THEN (IF negative THEN NegInf ELSE Inf)
        ELSE IF Len(body) >= 3 /\ SubSeq(body, 1, 3) = s_nan /\ AllDigits(SubSeq(body, 4, Len(body)))
        THEN NaN
        ELSE IF Len(body) >= 4 /\ SubSeq(body, 1, 4) = s_snan /\ AllDigits(SubSeq(body, 5, Len(body)))
        THEN None
        ELSE ParseNumeral(u)

_parse_decimal(value) ==
    IF value = None THEN None
    ELSE LET stringified == Strip(PyStr(value))
         IN  IF stringified = <<>> THEN None
             ELSE DecimalToFloat(Replace(Remove(Remove(stringified, "'"), " "), ",", "."))

_clean_string(value) == IF value = None THEN <<>> ELSE Strip(PyStr(value))

\* ", ".join(parts)
RECURSIVE Join(_)
Join(parts) ==
    IF parts = <<>> THEN <<>>
    ELSE IF Len(parts) = 1 THEN parts[1]
    ELSE parts[1] \o comma_space \o Join(Tail(parts))

NonEmpty(part) == part # <<>>

_collapse_description(row) ==
    Join(SelectSeq(<<_clean_string(DictGet(row, col_descr_1, None)),
                     _clean_string(DictGet(row, col_descr_2, None)),
                     _clean_string(DictGet(row, col_descr_3, None))>>, NonEmpty))

\* ------------------------------------------------------------------
\* backend/database.py: the table `transactions`
\* ------------------------------------------------------------------
\* str(tx.id) of a UUID
UuidStr(id) == <<"uuid", id>>

\* datetime.isoformat(timespec="seconds"): the microseconds are dropped.
isoformat_seconds(dt) == <<"iso", dt.s>>

\* json.dumps(payload, default=str)
json_dumps(payload) == [json |-> payload]

\* A float bound as a parameter: sqlite3 binds nan as NULL, whatever the
\* column.
SqlReal(x) == IF x = NaN THEN None ELSE x

\* A str bound to a REAL column: the column's affinity turns a text that is
\* a numeric literal into the number and keeps any other text as it is.
\* A numeric literal is a numeral, with or without an exponent, between
\* optional SQLite spaces.
SqlRealAffinity(v) ==
    IF v = None THEN None
    ELSE LET parsed == ParseNumeral(StripChars(v, SqlSpace))
         IN  IF parsed = None THEN v ELSE parsed

\* The row the INSERT statement writes for one transaction.  debit and
\* credit are the cells of the raw payload, bound as text.  account_name is
\* the cell as read: a str, or float nan when the cell is blank, and the
\* inferred counterparty of a fee is that same value.
RowParams(tx, raw_lookup) ==
    LET payload == DictGet(raw_lookup, UuidStr(tx.id), EmptyDict)
    IN  [id |-> UuidStr(tx.id),
         sheet_name |-> tx.sheet_name,
         account_name |-> SqlReal(tx.account_name),
         transaction_currency |-> tx.transaction_currency,
         amount_chf |-> SqlReal(tx.amount_chf),
         amount_native |-> SqlReal(tx.amount_native),
         fx_rate |-> SqlReal(tx.fx_rate),
         debit |-> SqlRealAffinity(DictGet(payload, col_debit, None)),
         credit |-> SqlRealAffinity(DictGet(payload, col_credit, None)),
         description |-> tx.description,
         category |-> tx.category,
         inferred_type |-> tx.inferred_type,
         inferred_counterparty |-> SqlReal(tx.inferred_counterparty),
         notes |-> tx.notes,
         raw_payload |-> json_dumps(payload),
         created_at |-> isoformat_seconds(tx.created_at)]

\* A plausible slip: a table without the primary key on id and a plain INSERT.
UpsertRow_append(table, row) == table \cup {row}

\* A plausible slip: ON CONFLICT updates every column but created_at.
UpsertRow_keep_created_at(table, row) ==
    IF \E r \in table : r.id = row.id
    THEN {IF r.id = row.id THEN [row EXCEPT !.created_at = r.created_at] ELSE r : r \in table}
    ELSE table \cup {row}

\* INSERT INTO transactions ... ON CONFLICT(id) DO UPDATE SET <every column>
UpsertRow(table, row) ==
    IF \E r \in table : r.id = row.id
    THEN {IF r.id = row.id THEN row ELSE r : r \in table}
    ELSE table \cup {row}

\* SQLiteRepository.upsert_transactions: one statement per transaction, in
\* order, then the commit.
RECURSIVE upsert_transactions(_, _, _)
upsert_transactions(table, txs, raw_lookup) ==
    IF txs = <<>> THEN table
    ELSE upsert_transactions(UpsertRow(table, RowParams(Head(txs), raw_lookup)),
                             Tail(txs), raw_lookup)

\* History of the calls: what was last upserted under each uuid, and the
\* uuids under which an upsert met a different earlier one.
RECURSIVE Replay(_, _, _)
Replay(h, txs, raw_lookup) ==
    IF txs = <<>> THEN h
    ELSE LET tx == Head(txs)
             entry == [tx |-> tx, payload |-> DictGet(raw_lookup, UuidStr(tx.id), EmptyDict)]
             seen == tx.id \in DOMAIN h.upserted
         IN  Replay([upserted |-> [i \in DOMAIN h.upserted \cup {tx.id} |->
                                      IF i = tx.id THEN entry ELSE h.upserted[i]],
                     replaced |-> IF seen /\ h.upserted[tx.id] # entry
                                  THEN h.replaced \cup {tx.id} ELSE h.replaced],
                    Tail(txs), raw_lookup)

\* ------------------------------------------------------------------
\* SpecRepo: any sequence of upsert_transactions calls
\* ------------------------------------------------------------------
MaxIds == 2

MaxBatch == 2

r_deposit(id) == BankTransactionRecord(id, sheet_crypto, acct_main, None, F(0), F(12050), CHF, None, d_acme, c_food, EmptyDict)

r_withdrawal(id) == BankTransactionRecord(id, sheet_crypto, acct_main, F(-9000), F(4500), None, USD, F(90), d_transfer, None, EmptyDict)

\* A fee on a row whose account_name cell is blank.
r_fee(id) == BankTransactionRecord(id, sheet_crypto, NaN, None, None, F(500), CHF, None, d_frais, None, EmptyDict)

Later == Instant(3)

\* Transactions a caller holds: two normalised versions under each uuid,
\* and a fee without account name under the first.
TxInputs ==
    {_normalise_record(r_deposit(id), classify(r_deposit(id)), Epoch) : id \in 1..MaxIds}
    \cup {_normalise_record(r_withdrawal(id), classify(r_withdrawal(id)), Later) : id \in 1..MaxIds}
    \cup {_normalise_record(r_fee(1), classify(r_fee(1)), Later)}

cell_45 == <<"4","5",".","0","0">>

payload_a == (col_debit :> cell_45) @@ (col_credit :> <<>>) @@ (col_descr_1 :> d_transfer)

cell_120 == <<"1","2","0",".","5","0">>

payload_b == (col_debit :> <<>>) @@ (col_credit :> cell_120) @@ (col_descr_1 :> d_acme)

\* Raw-payload lookups: none, or one payload for every uuid.
LookupInputs ==
    {EmptyDict} \cup {[k \in {UuidStr(id) : id \in 1..MaxIds} |-> p] : p \in {payload_a, payload_b}}

Batches == UNION {[1..n -> TxInputs] : n \in 0..MaxBatch}

InitRepo ==
    /\ transactions = {}
    /\ upserted = <<>>
    /\ replaced = {}
    /\ record = None
    /\ classification = None
    /\ normalised = None
    /\ pc = "idle"
    /\ uuid_issued = 0
    /\ clock = 0
    /\ call = <<>>
    /\ outcome = None
    /\ calls = 0
    /\ persisted = 0
    /\ MarketIdle

UpsertTransactions ==
    \E txs \in Batches, raw_lookup \in LookupInputs :
        LET h == Replay([upserted |-> upserted, replaced |-> replaced], txs, raw_lookup)
        IN  /\ transactions' = upsert_transactions(transactions, txs, raw_lookup)
            /\ upserted' = h.upserted
            /\ replaced' = h.replaced
            /\ call' = <<"upsert_transactions">>
            /\ outcome' = None
            /\ UNCHANGED <<recordVars, marketVars>>
            /\ UNCHANGED <<uuid_issued, clock, calls, persisted>>

NextRepo == UpsertTransactions

SpecRepo == InitRepo /\ [][NextRepo]_vars

\* ------------------------------------------------------------------
\* Claims on the transaction store (SpecRepo)
\* ------------------------------------------------------------------
RowsOf(id) == {r \in transactions : r.id = UuidStr(id)}

\* C2: the store holds exactly one row per identifier: no identifier appears
\* twice, and the rows are as many as the distinct identifiers ever upserted.
C2_OneRowPerId ==
    /\ \A r1, r2 \in transactions : r1.id = r2.id => r1 = r2
    /\ {r.id : r \in transactions} = {UuidStr(id) : id \in DOMAIN upserted}
    /\ Cardinality(transactions) = Cardinality(DOMAIN upserted)

\* C2 witness: an identifier was upserted again with other values while
\* another identifier is stored too.
C2_Witness ==
    /\ replaced # {}
    /\ Cardinality(DOMAIN upserted) >= 2
    /\ Cardinality(transactions) = Cardinality(DOMAIN upserted)

\* C3: last write wins: the stored row of an identifier carries, in every
\* column including created_at, the values of the transaction most recently
\* upserted under it (so an upsert leaves the rows of other identifiers alone).
\* The values are compared as SQLite holds them: a float nan as NULL, a
\* numeral bound to debit or credit as the number, created_at to the second.
C3_LastWriteWins ==
    \A id \in DOMAIN upserted :
        LET tx == upserted[id].tx
            payload == upserted[id].payload
        IN  /\ Cardinality(RowsOf(id)) = 1
            /\ \A r \in RowsOf(id) :
                /\ r.sheet_name = tx.sheet_name
                /\ r.account_name = SqlReal(tx.account_name)
                /\ r.transaction_currency = tx.transaction_currency
                /\ r.amount_chf = SqlReal(tx.amount_chf)
                /\ r.amount_native = SqlReal(tx.amount_native)
                /\ r.fx_rate = SqlReal(tx.fx_rate)
                /\ r.debit = SqlRealAffinity(DictGet(payload, col_debit, None))
                /\ r.credit = SqlRealAffinity(DictGet(payload, col_credit, None))
                /\ r.description = tx.description
                /\ r.category = tx.category
                /\ r.inferred_type = tx.inferred_type
                /\ r.inferred_counterparty = SqlReal(tx.inferred_counterparty)
                /\ r.notes = tx.notes
                /\ r.raw_payload = json_dumps(payload)
                /\ r.created_at = isoformat_seconds(tx.created_at)

\* C3 witness: an identifier first upserted at second 0 was upserted again at
\* second 1 and its row carries the later created_at.
C3_Witness ==
    \E id \in replaced :
        /\ upserted[id].tx.created_at = Later
        /\ \E r \in RowsOf(id) : r.created_at = isoformat_seconds(Later)
        /\ \E other \in DOMAIN upserted : other # id

\* ------------------------------------------------------------------
\* The workbook (config.data_file)
\* ------------------------------------------------------------------
sheet_stocks == <<"s","t","o","c","k","s","_","t","r","a","n","s","a","c">>

sheet_absent == <<"b","o","n","d","s","_","t","r","a","n","s","a","c">>

col_rate_padded == <<" ","r","a","t","e"," ">>

\* A DataFrame as pd.read_excel(dtype=str) returns it: the header as written
\* and one tuple of cells per data row.
df_crypto ==
    [columns |-> <<col_account_name, col_amount_chf, col_debit, col_credit,
                   col_transac_currency, col_rate_padded, col_descr_1, col_descr_2,
                   col_category>>,
     data |-> << <<acct_main, NaN, NaN, <<"1","2","0",".","5","0">>, NaN, NaN,
                   <<"A","c","m","e"," ","C","o","r","p">>, <<"i","n","v","o","i","c","e"," ","1","2","3">>, c_food>>,
                 <<acct_main, <<"-","9","0",".","0","0">>, <<"1","'","2","3","4",",","5","0">>, NaN, USD, <<"0",".","9","0">>,
                   <<"F","r","a","i","s"," ","d","e"," ","t","e","n","u","e">>, NaN, NaN>> >>]

df_stocks ==
    [columns |-> <<col_account_name, col_debit, col_credit, col_descr_1>>,
     data |-> << <<acct_main, cell_45, <<"0">>, d_transfer>> >>]

Workbook == (sheet_crypto :> df_crypto) @@ (sheet_stocks :> df_stocks)

\* ------------------------------------------------------------------
\* backend/importers.py: BankExcelImporter
\* ------------------------------------------------------------------
\* pd.read_excel raises ValueError for a sheet the workbook does not hold;
\* the column names are stripped.
_load_sheet(sheet_name) ==
    IF sheet_name \in DOMAIN Workbook
    THEN [columns |-> [j \in DOMAIN Workbook[sheet_name].columns |->
                          Strip(Workbook[sheet_name].columns[j])],
          data |-> Workbook[sheet_name].data]
    ELSE Raises("ValueError")

\* Row i of a DataFrame as a Series: column name -> cell
Series(df, i) ==
    [c \in {df.columns[j] : j \in DOMAIN df.columns} |->
        df.data[i][CHOOSE j \in DOMAIN df.columns : df.columns[j] = c]]

\* A plausible slip: the row exported without fillna("").
FillNa_keep_null(row) == row

\* row.fillna("").to_dict()
FillNa(row) == [c \in DOMAIN row |-> IF row[c] = NaN THEN <<>> ELSE row[c]]

\* `_clean_string(row.get("transac_currency")) or "CHF"`
CurrencyCell(row) ==
    LET cleaned == _clean_string(DictGet(row, col_transac_currency, None))
    IN  IF cleaned # <<>> THEN cleaned ELSE CHF

\* A plausible slip: an identifier derived from the position of the row
\* instead of a fresh one.
NewUuid_from_row(issued, index) == index

\* uuid4(): a fresh identifier, here the next one never issued before.
NewUuid(issued, index) == issued + 1

\* The BankTransactionRecord built for one row
RowRecord(sheet_name, row, id) ==
    BankTransactionRecord(id, sheet_name,
        DictGet(row, col_account_name, <<>>),
        _parse_decimal(DictGet(row, col_amount_chf, None)),
        _parse_decimal(DictGet(row, col_debit, None)),
        _parse_decimal(DictGet(row, col_credit, None)),
        CurrencyCell(row),
        _parse_decimal(DictGet(row, col_rate, None)),
        _collapse_description(row),
        _clean_string(DictGet(row, col_category, None)),
        FillNa(row))

\* _iter_records: the records of rows i.. of the sheet, `issued` uuids
\* having been generated before.
RECURSIVE _iter_records(_, _, _, _)
_iter_records(sheet_name, df, i, issued) ==
    IF i > Len(df.data) THEN <<>>
    ELSE <<RowRecord(sheet_name, Series(df, i), NewUuid(issued, i))>>
         \o _iter_records(sheet_name, df, i + 1, issued + 1)

DictPut(d, k, v) == [x \in DOMAIN d \cup {k} |-> IF x = k THEN v ELSE d[x]]

\* The inner loop of load() over the records of one sheet.  Every
\* NormalisedTransaction reads the clock at its construction: acc.ticks are
\* the readings to come, acc.clock the last one made.
RECURSIVE LoadRecords(_, _)
LoadRecords(acc, records) ==
    IF records = <<>> \/ acc.raised # "" THEN acc
    ELSE LET r == Head(records)
             n == _normalise_record(r, classify(r), Instant(Head(acc.ticks)))
             lookup == DictPut(acc.raw_lookup, UuidStr(r.id), r.raw_payload)
         IN  LoadRecords(
                 IF HasRaised(n)
                 THEN [acc EXCEPT !.raw_lookup = lookup, !.issued = @ + 1, !.raised = n.raised]
                 ELSE [acc EXCEPT !.raw_lookup = lookup, !.issued = @ + 1,
                                  !.transactions = Append(@, n),
                                  !.clock = Head(acc.ticks), !.ticks = Tail(@)],
                 Tail(records))

\* The outer loop of load() over the sheets
RECURSIVE LoadSheets(_, _)
LoadSheets(acc, sheet_names) ==
    IF sheet_names = <<>> \/ acc.raised # "" THEN acc
    ELSE LET df == _load_sheet(Head(sheet_names))
         IN  IF HasRaised(df) THEN [acc EXCEPT !.raised = df.raised]
             ELSE LoadSheets(
                      LoadRecords(acc, _iter_records(Head(sheet_names), df, 1, acc.issued)),
                      Tail(sheet_names))

InWorkbook(sheet_name) == sheet_name \in DOMAIN Workbook

\* A plausible slip: a sheet the workbook does not hold is skipped.
load_skip_missing(sheet_names, issued, now, ticks) ==
    LoadSheets([transactions |-> <<>>, raw_lookup |-> EmptyDict, issued |-> issued,
                raised |-> "", clock |-> now, ticks |-> ticks],
               SelectSeq(sheet_names, InWorkbook))

\* BankExcelImporter.load: the transactions and the lookup returned, or the
\* exception raised (raised # ""), the count of uuids issued by then and
\* the last reading of the clock.  `now` is the clock before the call and
\* `ticks` its readings during the call, one per record.
load(sheet_names, issued, now, ticks) ==
    LoadSheets([transactions |-> <<>>, raw_lookup |-> EmptyDict, issued |-> issued,
                raised |-> "", clock |-> now, ticks |-> ticks], sheet_names)

\* The readings of a clock that stands at `now` during one load: as many as
\* the longest load has records, each the instant before or half a second
\* later, never going back.
Ticks(now, sheets) ==
    LET longest == CHOOSE n \in {Len(Workbook[w].data) : w \in DOMAIN Workbook} :
                       \A w \in DOMAIN Workbook : Len(Workbook[w].data) <= n
    IN  {[k \in 1..(sheets * longest) |-> IF k > step THEN now + 1 ELSE now] :
            step \in 0..(sheets * longest)}

\* ------------------------------------------------------------------
\* backend/services.py: PortfolioService.import_workbook
\* SpecImport: any sequence of import_workbook calls on the workbook
\* ------------------------------------------------------------------
MaxImports == 2

MaxSheets == 2

SheetNames == {sheet_crypto, sheet_stocks, sheet_absent}

SheetLists == UNION {[1..n -> SheetNames] : n \in 0..MaxSheets}

InitImport ==
    /\ transactions = {}
    /\ upserted = <<>>
    /\ replaced = {}
    /\ uuid_issued = 0
    /\ clock = 0
    /\ call = <<>>
    /\ outcome = None
    /\ calls = 0
    /\ persisted = 0
    /\ MarketIdle
    /\ record = None
    /\ classification = None
    /\ normalised = None
    /\ pc = "idle"

\* import_workbook(sheet_names): load, then upsert_transactions, then the
\* count; an exception of load leaves the call before the upsert.
ImportWorkbook ==
    /\ calls < MaxImports
    /\ \E sheet_names \in SheetLists, ticks \in Ticks(clock, MaxSheets) :
        LET loaded == load(sheet_names, uuid_issued, clock, ticks)
            h == Replay([upserted |-> upserted, replaced |-> replaced],
                        loaded.transactions, loaded.raw_lookup)
        IN  /\ call' = sheet_names
            /\ calls' = calls + 1
            /\ clock' = loaded.clock
            /\ uuid_issued' = loaded.issued
            /\ IF loaded.raised # ""
               THEN /\ outcome' = Raises(loaded.raised)
                    /\ UNCHANGED <<transactions, upserted, replaced, persisted>>
               ELSE /\ transactions' = upsert_transactions(transactions, loaded.transactions,
                                                            loaded.raw_lookup)
                    /\ outcome' = [returned |-> Len(loaded.transactions)]
                    /\ persisted' = persisted + Len(loaded.transactions)
                    /\ upserted' = h.upserted
                    /\ replaced' = h.replaced
            /\ UNCHANGED <<recordVars, marketVars>>

NextImport == ImportWorkbook

SpecImport == InitImport /\ [][NextImport]_vars

\* ------------------------------------------------------------------
\* Claims on the import workflow (SpecImport)
\* ------------------------------------------------------------------
\* A stored row without its identifier and its created_at
Content(r) == [r EXCEPT !.id = None, !.created_at = None]

\* A stored row without its created_at
WithoutCreatedAt(r) == [r EXCEPT !.created_at = None]

\* C1: running import_workbook twice on the same sheets leaves the store with
\* the same number of transactions and the same field values (other than
\* created_at) as after the first run.
C1_IdempotentImport ==
    [][(/\ calls' = calls + 1
        /\ calls >= 1
        /\ call' = call
        /\ ~HasRaised(outcome)
        /\ ~HasRaised(outcome'))
       => /\ Cardinality(transactions') = Cardinality(transactions)
          /\ {WithoutCreatedAt(r) : r \in transactions'} =
             {WithoutCreatedAt(r) : r \in transactions}]_vars

\* C4: every record extracted gets a fresh identifier, so that every import
\* adds as many rows as it has records: the stored identifiers are pairwise
\* distinct and as many as the records imported so far.
C4_FreshIdentifiers ==
    /\ Cardinality(transactions) = persisted
    /\ Cardinality({r.id : r \in transactions}) = persisted
    /\ \A r \in transactions : \E id \in 1..uuid_issued : r.id = UuidStr(id)
    /\ (calls >= 1 /\ ~HasRaised(outcome)) => outcome.returned <= Cardinality(transactions)

\* C4 witness: one source row imported twice is stored twice, under two
\* identifiers.
C4_Witness ==
    /\ calls = 2
    /\ \E r1, r2 \in transactions : r1.id # r2.id /\ Content(r1) = Content(r2)
    /\ Cardinality(transactions) = persisted

\* C5: an import that names a sheet the workbook does not hold fails and
\* leaves the transaction store as it was, whatever was read before.
C5_AllOrNothing ==
    [][(/\ calls' = calls + 1
        /\ \E i \in DOMAIN call' : call'[i] \notin DOMAIN Workbook)
       => /\ HasRaised(outcome')
          /\ transactions' = transactions]_vars

\* C5 witness: the first sheet was read, the second is missing; the call
\* raised after an earlier import had filled the store.
C5_Witness ==
    /\ calls = 2
    /\ Len(call) = 2
    /\ call[1] \in DOMAIN Workbook
    /\ call[2] \notin DOMAIN Workbook
    /\ HasRaised(outcome)
    /\ uuid_issued > persisted
    /\ transactions # {}

\* ------------------------------------------------------------------
\* SpecField: one call of a pure helper of backend/importers.py
\* ------------------------------------------------------------------
MaxDescr == 4

MaxCell == 3

\* Every str of at most n characters of chars
Strings(chars, n) == UNION {[1..k -> chars] : k \in 0..n}

DescrChars == {"A", "b", ",", " "}

CellChars == {"1", "5", "'", ",", ".", " ", "a", "-"}

s_1234_50 == <<"1","'","2","3","4",",","5","0">>

s_abc == <<"a","b","c">>

DescriptionInputs == Strings(DescrChars, MaxDescr) \cup {d_acme}

\* A cell of the sheet: a str, float nan when blank, None when the sheet has
\* no such column (row.get).
CellInputs == {None, NaN} \cup Strings(CellChars, MaxCell) \cup {s_1234_50, s_abc}

r_described(description) == BankTransactionRecord(1, sheet_crypto, acct_main, None, None, None, CHF, None, description, None, EmptyDict)

InitField ==
    /\ pc = "idle"
    /\ call = <<>>
    /\ outcome = None
    /\ record = None
    /\ classification = None
    /\ normalised = None
    /\ transactions = {}
    /\ upserted = <<>>
    /\ replaced = {}
    /\ uuid_issued = 0
    /\ clock = 0
    /\ calls = 0
    /\ persisted = 0
    /\ MarketIdle

\* TransactionClassifier._extract_counterparty(record)
ExtractCounterparty ==
    /\ pc = "idle"
    /\ \E description \in DescriptionInputs :
        /\ call' = <<"_extract_counterparty", description>>
        /\ outcome' = _extract_counterparty(r_described(description))
    /\ pc' = "returned"
    /\ UNCHANGED <<record, classification, normalised, repoVars, marketVars>>
    /\ UNCHANGED <<uuid_issued, clock, calls, persisted>>

\* _parse_decimal(value)
ParseDecimal ==
    /\ pc = "idle"
    /\ \E value \in CellInputs :
        /\ call' = <<"_parse_decimal", value>>
        /\ outcome' = _parse_decimal(value)
    /\ pc' = "returned"
    /\ UNCHANGED <<record, classification, normalised, repoVars, marketVars>>
    /\ UNCHANGED <<uuid_issued, clock, calls, persisted>>

NextField == ExtractCounterparty \/ ParseDecimal

SpecField == InitField /\ [][NextField]_vars

\* ------------------------------------------------------------------
\* Claims on the field helpers (SpecField)
\* ------------------------------------------------------------------
Returned(function) == pc = "returned" /\ call[1] = function

\* C19: the extracted counterparty is the text before the first comma of the
\* description with the surrounding whitespace trimmed, and is absent when
\* the description or that trimmed text is empty.
C19_CounterpartyExtraction ==
    Returned("_extract_counterparty") => IsCounterpartyOf(outcome, call[2])

\* C19 witness: "Acme Corp, invoice 123" gives "Acme Corp"; a description
\* with only blanks before its comma gives none.
C19_Witness ==
    /\ Returned("_extract_counterparty")
    /\ \/ call[2] = d_acme /\ outcome = <<"A","c","m","e"," ","C","o","r","p">>
       \/ call[2] = <<" ", ",", "A">> /\ outcome = None

\* The text is a decimal numeral: an optional sign, digits and at most one
\* decimal point, with one digit at least.
IsNumeral(t) ==
    LET body == IF t # <<>> /\ t[1] \in {"+", "-"} THEN Tail(t) ELSE t
    IN  /\ \A i \in 1..Len(body) : body[i] \in {"0","1","2","3","4","5","6","7","8","9","."}
        /\ Cardinality({i \in 1..Len(body) : body[i] = "."}) <= 1
        /\ \E i \in 1..Len(body) : body[i] # "."

\* The float is the value of the numeral: x hundredths, with
\* x * 10^places = sign * digits * 100.
IsValueOf(x, t) ==
    LET negative == t[1] = "-"
        body == IF t[1] \in {"+", "-"} THEN Tail(t) ELSE t
        points == {i \in 1..Len(body) : body[i] = "."}
        places == IF points = {} THEN 0 ELSE Len(body) - (CHOOSE i \in points : TRUE)
        digits == SelectSeq(body, LAMBDA c : c # ".")
    IN  /\ x # None /\ x # NaN
        /\ x[1] = "f"
        /\ x[2] * Pow10(places) = (IF negative THEN -1 ELSE 1) * DigitsValue(digits) * 100

\* The cell without the thousands separators (apostrophe, space) and with
\* the decimal comma read as a point.
Unseparated(t) ==
    [i \in 1..Len(SelectSeq(t, LAMBDA c : c \notin {"'", " "})) |->
        LET c == SelectSeq(t, LAMBDA d : d \notin {"'", " "})[i]
        IN  IF c = "," THEN "." ELSE c]

\* C20: decimal parsing never raises; an empty, blank (null cell) or
\* unparsable input gives an absent value, and otherwise the thousands
\* separators are removed and a decimal comma is read as a decimal point.
C20_DecimalParsing ==
    Returned("_parse_decimal") =>
        LET value == call[2]
        IN  IF value = None \/ value = NaN THEN outcome = None
            ELSE IF ~IsNumeral(Unseparated(value)) THEN outcome = None
            ELSE IsValueOf(outcome, Unseparated(value))

\* ------------------------------------------------------------------
\* backend/database.py: the table `fx_rates` and cash_summary
\* ------------------------------------------------------------------
\* models.FxRate; valuation_date is a date, here its day number.
FxRate(base, quote, valuation_date, rate, source) ==
    [base |-> base, quote |-> quote, valuation_date |-> valuation_date,
     rate |-> rate, source |-> source]

\* date.isoformat(), and SQLite's date() of such a text
isoformat_date(d) == <<"date", d>>

SqlDate(text) == text[2]

\* The parameters bound for one rate
FxParams(fx) ==
    [base |-> Upper(fx.base),
     quote |-> Upper(fx.quote),
     valuation_date |-> isoformat_date(fx.valuation_date),
     rate |-> SqlReal(fx.rate),
     source |-> fx.source]

\* UNIQUE(base, quote, valuation_date, source)
FxKey(row) == <<row.base, row.quote, row.valuation_date, row.source>>

\* A plausible slip: a plain INSERT into a table without the UNIQUE constraint.
InsertOrReplaceFx_append(table, row) ==
    IF row.rate = None THEN [table |-> table, raised |-> "IntegrityError"]
    ELSE [table |-> table \cup {row}, raised |-> ""]

\* INSERT OR REPLACE INTO fx_rates: the row in conflict is deleted and the
\* new one inserted; a NULL rate violates NOT NULL, the statement is aborted
\* and sqlite3 raises IntegrityError.  The rowid, which nothing reads, is
\* left out.
InsertOrReplaceFx(table, row) ==
    IF row.rate = None THEN [table |-> table, raised |-> "IntegrityError"]
    ELSE [table |-> {r \in table : FxKey(r) # FxKey(row)} \cup {row}, raised |-> ""]

\* SQLiteRepository.upsert_fx_rates: one statement per rate, then the commit.
\* The table is what the repository's connection reads afterwards: when a
\* statement raises (raised # ""), the rows written before it stay, neither
\* committed nor rolled back.
RECURSIVE upsert_fx_rates(_, _)
upsert_fx_rates(table, rates) ==
    IF rates = <<>> THEN [table |-> table, raised |-> ""]
    ELSE LET done == InsertOrReplaceFx(table, FxParams(Head(rates)))
         IN  IF done.raised # "" THEN done
             ELSE upsert_fx_rates(done.table, Tail(rates))

\* History of the calls: the rate last upserted under each key, and the keys
\* under which an upsert met another rate.
RECURSIVE ReplayFx(_, _)
ReplayFx(h, rates) ==
    IF rates = <<>> \/ FxParams(Head(rates)).rate = None THEN h
    ELSE LET row == FxParams(Head(rates))
             seen == FxKey(row) \in DOMAIN h.upserted
         IN  ReplayFx([upserted |-> [k \in DOMAIN h.upserted \cup {FxKey(row)} |->
                                        IF k = FxKey(row) THEN row.rate ELSE h.upserted[k]],
                       replaced |-> IF seen /\ h.upserted[FxKey(row)] # row.rate
                                    THEN h.replaced \cup {FxKey(row)} ELSE h.replaced],
                      Tail(rates))

\* A plausible slip: ORDER BY date(valuation_date) ASC.
get_latest_fx_rate_oldest(table, base, quote) ==
    LET rows == {r \in table : r.base = Upper(base) /\ r.quote = Upper(quote)}
    IN  IF rows = {} THEN {None}
        ELSE {r.rate : r \in {x \in rows : \A y \in rows :
                                  SqlDate(x.valuation_date) <= SqlDate(y.valuation_date)}}

\* SQLiteRepository.get_latest_fx_rate: the values the call can return.
\* ORDER BY date(valuation_date) DESC LIMIT 1 leaves open which row comes
\* first among those of the greatest date (two sources on one day).
get_latest_fx_rate(table, base, quote) ==
    LET rows == {r \in table : r.base = Upper(base) /\ r.quote = Upper(quote)}
    IN  IF rows = {} THEN {None}
        ELSE {r.rate : r \in {x \in rows : \A y \in rows :
                                  SqlDate(y.valuation_date) <= SqlDate(x.valuation_date)}}

\* SUM(amount_chf): NULL amounts are skipped, no amount at all gives NULL.
\* A sum that is not a number (an infinity and its opposite) is read back
\* as NULL, which SqlReal renders where the sum is used.
RECURSIVE SqlSum(_)
SqlSum(rows) ==
    IF rows = {} THEN None
    ELSE LET r == CHOOSE x \in rows : TRUE
             rest == SqlSum(rows \ {r})
         IN  IF r.amount_chf = None THEN rest
             ELSE IF rest = None THEN r.amount_chf
             ELSE FAdd(rest, r.amount_chf)

Coalesce(x, default) == IF x = None THEN default ELSE x

\* A plausible slip: the total labelled with the display currency as given.
cash_summary_label_as_given(table, display_currency, rate) ==
    LET total_chf == Coalesce(SqlReal(SqlSum(table)), F(0))
        payload == [total_chf |-> total_chf, transaction_count |-> Cardinality(table)]
    IN  IF Upper(display_currency) = CHF
        THEN payload @@ [display_currency |-> CHF, display_total |-> total_chf,
                         fx_missing |-> FALSE]
        ELSE IF rate = None
        THEN payload @@ [display_currency |-> display_currency,
                         display_total |-> total_chf, fx_missing |-> TRUE]
        ELSE payload @@ [display_currency |-> Upper(display_currency),
                         display_total |-> FMul(total_chf, rate), fx_missing |-> FALSE,
                         fx_rate |-> rate]

\* A plausible slip: COUNT(amount_chf) and the total of the positive amounts.
cash_summary_inflows_only(table, display_currency, rate) ==
    LET total_chf == Coalesce(SqlReal(SqlSum({r \in table : r.amount_chf # None /\ Gt0(r.amount_chf)})), F(0))
        payload == [total_chf |-> total_chf, transaction_count |-> Cardinality(table)]
    IN  IF Upper(display_currency) = CHF
        THEN payload @@ [display_currency |-> CHF, display_total |-> total_chf,
                         fx_missing |-> FALSE]
        ELSE IF rate = None
        THEN payload @@ [display_currency |-> Upper(display_currency),
                         display_total |-> total_chf, fx_missing |-> TRUE]
        ELSE payload @@ [display_currency |-> Upper(display_currency),
                         display_total |-> FMul(total_chf, rate), fx_missing |-> FALSE,
                         fx_rate |-> rate]

\* SQLiteRepository.cash_summary, `rate` being what get_latest_fx_rate
\* returns when it is called.
cash_summary(table, display_currency, rate) ==
    LET total_chf == Coalesce(SqlReal(SqlSum(table)), F(0))
        payload == [total_chf |-> total_chf, transaction_count |-> Cardinality(table)]
    IN  IF Upper(display_currency) = CHF
        THEN payload @@ [display_currency |-> CHF, display_total |-> total_chf,
                         fx_missing |-> FALSE]
        ELSE IF rate = None
        THEN payload @@ [display_currency |-> Upper(display_currency),
                         display_total |-> total_chf, fx_missing |-> TRUE]
        ELSE payload @@ [display_currency |-> Upper(display_currency),
                         display_total |-> FMul(total_chf, rate), fx_missing |-> FALSE,
                         fx_rate |-> rate]

\* ------------------------------------------------------------------
\* SpecFx and SpecCash: cash_summary after FX upserts and after
\* transaction upserts
\* ------------------------------------------------------------------
MaxDay == 2

MaxFxBatch == 2

EUR == <<"E","U","R">>

s_usd_lower == <<"u","s","d">>

s_eur_accent == <<"é","u","r">>

s_alpha_vantage == <<"a","l","p","h","a","_","v","a","n","t","a","g","e">>

s_manual == <<"m","a","n","u","a","l">>

\* Rates a caller holds: two values per day for CHF->USD, a second source on
\* day 1 given in lower case, the inverse pair, and a rate that is nan.
FxInputs ==
    {FxRate(CHF, USD, d, r, s_alpha_vantage) : d \in 1..MaxDay, r \in {F(110), F(90)}}
    \cup {FxRate(s_chf_lower, s_usd_lower, 1, F(120), s_manual),
          FxRate(USD, CHF, 1, F(90), s_alpha_vantage),
          FxRate(CHF, USD, 1, NaN, s_manual)}

FxBatches == UNION {[1..n -> FxInputs] : n \in 0..MaxFxBatch}

DisplayCurrencies == {CHF, s_chf_lower, USD, s_usd_lower, EUR, s_eur_accent}

\* Transaction stores SpecFx starts from: those left by one upsert.
StoredBatches ==
    {<<>>,
     <<_normalise_record(r_deposit(1), classify(r_deposit(1)), Epoch)>>,
     <<_normalise_record(r_deposit(1), classify(r_deposit(1)), Epoch),
       _normalise_record(r_withdrawal(2), classify(r_withdrawal(2)), Later)>>}

\* FX stores SpecCash starts from: those left by one upsert.
StoredFxBatches ==
    {<<>>, <<FxRate(CHF, USD, 1, F(110), s_alpha_vantage)>>,
     <<FxRate(USD, CHF, 1, F(90), s_alpha_vantage)>>,
     <<FxRate(s_chf_lower, s_eur_accent, 1, F(110), s_alpha_vantage)>>}

InitFx ==
    /\ \E txs \in StoredBatches :
        LET h == Replay([upserted |-> <<>>, replaced |-> {}], txs, EmptyDict)
        IN  /\ transactions = upsert_transactions({}, txs, EmptyDict)
            /\ upserted = h.upserted
            /\ replaced = h.replaced
    /\ MarketIdle
    /\ call = <<>>
    /\ outcome = None
    /\ pc = "idle"
    /\ record = None
    /\ classification = None
    /\ normalised = None
    /\ uuid_issued = 0
    /\ clock = 0
    /\ calls = 0
    /\ persisted = 0

InitCash ==
    /\ transactions = {}
    /\ upserted = <<>>
    /\ replaced = {}
    /\ \E rates \in StoredFxBatches :
        LET h == ReplayFx([upserted |-> <<>>, replaced |-> {}], rates)
        IN  /\ fx_rates = upsert_fx_rates({}, rates).table
            /\ fx_upserted = h.upserted
            /\ fx_replaced = h.replaced
    /\ quotes = {}
    /\ config = NoKeys
    /\ call = <<>>
    /\ outcome = None
    /\ pc = "idle"
    /\ record = None
    /\ classification = None
    /\ normalised = None
    /\ uuid_issued = 0
    /\ clock = 0
    /\ calls = 0
    /\ persisted = 0

\* SQLiteRepository.upsert_fx_rates(rates)
UpsertFxRates ==
    \E rates \in FxBatches :
        LET h == ReplayFx([upserted |-> fx_upserted, replaced |-> fx_replaced], rates)
            done == upsert_fx_rates(fx_rates, rates)
        IN  /\ fx_rates' = done.table
            /\ fx_upserted' = h.upserted
            /\ fx_replaced' = h.replaced
            /\ call' = <<"upsert_fx_rates">>
            /\ outcome' = IF done.raised # "" THEN Raises(done.raised) ELSE None
            /\ UNCHANGED <<recordVars, repoVars, quotes, config>>
            /\ UNCHANGED <<uuid_issued, clock, calls, persisted>>

\* SQLiteRepository.cash_summary(display_currency)
CashSummary ==
    \E display_currency \in DisplayCurrencies :
        \E rate \in get_latest_fx_rate(fx_rates, CHF, Upper(display_currency)) :
            /\ call' = <<"cash_summary", display_currency>>
            /\ outcome' = cash_summary(transactions, display_currency, rate)
            /\ UNCHANGED <<recordVars, repoVars, marketVars>>
            /\ UNCHANGED <<uuid_issued, clock, calls, persisted>>

NextFx == UpsertFxRates \/ CashSummary

SpecFx == InitFx /\ [][NextFx]_vars

NextCash == UpsertTransactions \/ CashSummary

SpecCash == InitCash /\ [][NextCash]_vars

\* ------------------------------------------------------------------
\* Claims on cash_summary and the FX store (SpecFx, SpecCash)
\* ------------------------------------------------------------------
\* cash_summary was the last call, for a display currency other than CHF
\* (in any letter case) or for any.
Summarised == call # <<>> /\ call[1] = "cash_summary"

SummarisedForeign == Summarised /\ Upper(call[2]) # CHF

\* The stored rates from CHF to the display currency of the last call
PairRows == {r \in fx_rates : r.base = CHF /\ r.quote = Upper(call[2])}

\* The signed CHF amounts of the rows, in hundredths, added up
RECURSIVE SumHundredths(_)
SumHundredths(rows) ==
    IF rows = {} THEN 0
    ELSE LET r == CHOOSE x \in rows : TRUE
         IN  (IF r.amount_chf = None THEN 0 ELSE r.amount_chf[2])
             + SumHundredths(rows \ {r})

\* x is the float a * b, by cross-multiplication on the hundredths
IsProductOf(x, a, b) ==
    /\ x[1] \in {"f", "q"}
    /\ x[2] * 100 = a[2] * b[2] * (IF x[1] = "q" THEN x[3] ELSE 1)

\* C14: with a display currency other than CHF and no CHF-to-that-currency
\* rate stored, cash_summary does not fail and returns the unconverted CHF
\* total as display_total, the requested currency (its code in upper case)
\* as display_currency and fx_missing = true.
C14_AggregationDegradation ==
    (SummarisedForeign /\ PairRows = {}) =>
        /\ ~HasRaised(outcome)
        /\ outcome.total_chf = F(SumHundredths(transactions))
        /\ outcome.display_total = outcome.total_chf
        /\ outcome.display_currency = Upper(call[2])
        /\ outcome.fx_missing = TRUE

\* C14 witness: "usd" requested while only the USD->CHF rate is stored and
\* the store holds transactions.
C14_Witness ==
    /\ Summarised
    /\ call[2] = s_usd_lower
    /\ fx_rates # {}
    /\ PairRows = {}
    /\ Cardinality(transactions) = 2
    /\ outcome.fx_missing = TRUE
    /\ outcome.display_total = F(3050)
    /\ outcome.display_currency = USD

\* C15: with a display currency other than CHF and a CHF-to-that-currency
\* rate stored, display_total is the CHF total times the rate of a stored
\* row of the greatest valuation date for the pair, and fx_missing is false;
\* a rate of an older valuation date is not used, whenever it was stored.
C15_LatestRate ==
    (SummarisedForeign /\ PairRows # {}) =>
        /\ outcome.fx_missing = FALSE
        /\ \E r \in PairRows :
              /\ \A other \in PairRows : other.valuation_date[2] <= r.valuation_date[2]
              /\ IsProductOf(outcome.display_total, F(SumHundredths(transactions)), r.rate)

\* C15 witness: rates 1.10 and 0.90 stored for two days; the total 30.50 is
\* shown with the rate of the later day.
C15_Witness ==
    /\ SummarisedForeign
    /\ \E old, new \in PairRows :
          /\ old.valuation_date[2] < new.valuation_date[2]
          /\ old.rate = F(110)
          /\ new.rate = F(90)
    /\ Cardinality(transactions) = 2
    /\ outcome.display_total = F(2745)
    /\ outcome.fx_missing = FALSE

\* C16: cash_summary reports as total_chf the sum of the signed CHF amounts
\* of the stored rows (0 for an empty store) and as transaction_count their
\* number; with the display currency CHF in any letter case display_total
\* is total_chf and fx_missing is false.
C16_Totals ==
    Summarised =>
        /\ outcome.total_chf = F(SumHundredths(transactions))
        /\ outcome.transaction_count = Cardinality(transactions)
        /\ Upper(call[2]) = CHF =>
              /\ outcome.display_total = outcome.total_chf
              /\ outcome.fx_missing = FALSE

\* C16 witness: "chf" requested on a store where a row was replaced and
\* that holds a deposit of 120.50 and a withdrawal of 90.00.
C16_Witness ==
    /\ Summarised
    /\ call[2] = s_chf_lower
    /\ replaced # {}
    /\ outcome.transaction_count = 2
    /\ outcome.total_chf = F(3050)
    /\ outcome.display_total = F(3050)

\* C17: the FX store holds one rate at most per (base, quote,
\* valuation_date, source), the one last upserted under that key; an upsert
\* of a stored key replaces the rate and adds no row.
C17_OneRatePerKey ==
    /\ \A r1, r2 \in fx_rates : FxKey(r1) = FxKey(r2) => r1 = r2
    /\ {FxKey(r) : r \in fx_rates} = DOMAIN fx_upserted
    /\ \A r \in fx_rates : r.rate = fx_upserted[FxKey(r)]
    /\ Cardinality(fx_rates) = Cardinality(DOMAIN fx_upserted)

\* C17 witness: a key was upserted again with another rate while other keys
\* are stored.
C17_Witness ==
    /\ fx_replaced # {}
    /\ Cardinality(fx_rates) >= 2
    /\ Cardinality(fx_rates) = Cardinality(DOMAIN fx_upserted)

\* ------------------------------------------------------------------
\* backend/price_service.py: PriceService
\* ------------------------------------------------------------------
\* An Optional[FxRate] or Optional[Quote] is <<>> for None and <<x>> for x;
\* a call returns it ([returned |-> ...]) or raises.
Returns(value) == [returned |-> value]

\* A value of response.json(): null (None in Python), a str or a dict whose
\* values are such values.  (Numbers, booleans and lists are outside the
\* bodies modelled.)
JNull == [type |-> "null", value |-> <<>>]

JStr(s) == [type |-> "str", value |-> s]

JDict(d) == [type |-> "dict", value |-> d]

\* bool(j): None, "" and {} are falsy
JTruthy(j) == j.type # "null" /\ j.value # <<>>

\* j.get(key, default) on a dict j
JGet(j, key, default) == IF key \in DOMAIN j.value THEN j.value[key] ELSE default

\* What requests.get meets: an exception of the transport, or a response
\* with a status and a JSON body.
Remote(get, status, json) == [get |-> get, status |-> status, json |-> json]

k_realtime == <<"R","e","a","l","t","i","m","e"," ","C","u","r","r","e","n","c","y"," ","E","x","c","h","a","n","g","e"," ","R","a","t","e">>

k_exchange_rate == <<"5","."," ","E","x","c","h","a","n","g","e"," ","R","a","t","e">>

k_global_quote == <<"G","l","o","b","a","l"," ","Q","u","o","t","e">>

k_price == <<"0","5","."," ","p","r","i","c","e">>

k_currency == <<"0","8","."," ","c","u","r","r","e","n","c","y">>

k_data == <<"d","a","t","a">>

k_coin == <<"c","o","i","n">>

k_coin_price == <<"p","r","i","c","e">>

k_symbol == <<"s","y","m","b","o","l">>

s_coinranking == <<"c","o","i","n","r","a","n","k","i","n","g">>

\* models.Quote
Quote(symbol, valuation_date, price, currency, source) ==
    [symbol |-> symbol, valuation_date |-> valuation_date, price |-> price,
     currency |-> currency, source |-> source]

\* float(text) for a str: the number, or ValueError.  float() skips the
\* FloatSpace around the text, takes an underscore only between two digits,
\* a numeral, "inf" / "infinity" and "nan", in any case and signed.
\* (Digits other than 0-9, which float() reads too, and values beyond the
\* integers of the checker are outside the texts modelled.)
PyFloat(text) ==
    LET u == StripChars(text, FloatSpace)
        grouped == \A i \in 1..Len(u) :
                       u[i] = "_" => /\ 1 < i /\ i < Len(u)
                                     /\ IsDigit(u[i - 1]) /\ IsDigit(u[i + 1])
        v == Remove(u, "_")
        signed == v # <<>> /\ v[1] \in {"+", "-"}
        body == Lower(IF signed THEN Tail(v) ELSE v)
        x == IF body \in {<<"i","n","f">>, <<"i","n","f","i","n","i","t","y">>}
             THEN (IF signed /\ v[1] = "-" THEN NegInf ELSE Inf)
             ELSE IF body = s_nan THEN NaN
             ELSE ParseNumeral(v)
    IN  IF ~grouped \/ x = None THEN Raised("ValueError") ELSE x

\* requests.get(...) followed by response.raise_for_status(), which raises
\* for a status of 400 to 599: the JSON body, or the exception raised.  (A
\* body that is not JSON is not among the responses modelled.)
HttpGetJson(remote) ==
    IF remote.get # "ok" THEN Raises(remote.get)
    ELSE IF remote.status >= 400 /\ remote.status < 600 THEN Raises("HTTPError")
    ELSE Returns(remote.json)

\* float(price_str) and what follows it in the three fetchers: None (<<>>)
\* when price_str is None or float raises ValueError, which is caught;
\* float of a dict raises TypeError, which is not.
FloatOr(price_str) ==
    IF price_str.type = "null" THEN Returns(<<>>)
    ELSE IF price_str.type = "dict" THEN Raises("TypeError")
    ELSE IF IsRaised(PyFloat(price_str.value)) THEN Returns(<<>>)
    ELSE Returns(<<PyFloat(price_str.value)>>)

\* PriceService.fetch_latest_fx_rate.  `key not in payload` is a substring
\* test on a str and a TypeError on None; payload[key] on a str and
\* body.get on anything but a dict raise.
fetch_latest_fx_rate(cfg, base, quote, remote, today) ==
    IF ~TruthyStr(cfg.alpha_vantage_key) THEN Returns(<<>>)
    ELSE LET response == HttpGetJson(remote) IN
         IF HasRaised(response) THEN response
         ELSE LET payload == response.returned IN
              IF payload.type = "null" THEN Raises("TypeError")
              ELSE IF payload.type = "str"
              THEN (IF Contains(k_realtime, payload.value) THEN Raises("TypeError")
                    ELSE Returns(<<>>))
              ELSE IF k_realtime \notin DOMAIN payload.value THEN Returns(<<>>)
              ELSE LET body == payload.value[k_realtime] IN
                   IF body.type # "dict" THEN Raises("AttributeError")
                   ELSE LET rate == FloatOr(JGet(body, k_exchange_rate, JNull)) IN
                        IF HasRaised(rate) \/ rate.returned = <<>> THEN rate
                        ELSE Returns(<<FxRate(Upper(base), Upper(quote), today,
                                              rate.returned[1], s_alpha_vantage)>>)

\* PriceService.fetch_equity_quote.  payload.get, quote_section.get and
\* currency.upper raise AttributeError on a value of another type.
fetch_equity_quote(cfg, symbol, remote, today) ==
    IF ~TruthyStr(cfg.alpha_vantage_key) THEN Returns(<<>>)
    ELSE LET response == HttpGetJson(remote) IN
         IF HasRaised(response) THEN response
         ELSE IF response.returned.type # "dict" THEN Raises("AttributeError")
         ELSE LET quote_section == JGet(response.returned, k_global_quote, JNull) IN
              IF ~JTruthy(quote_section) THEN Returns(<<>>)
              ELSE IF quote_section.type # "dict" THEN Raises("AttributeError")
              ELSE LET price == FloatOr(JGet(quote_section, k_price, JNull))
                       currency == JGet(quote_section, k_currency, JStr(USD))
                   IN
                   IF HasRaised(price) \/ price.returned = <<>> THEN price
                   ELSE IF currency.type # "str" THEN Raises("AttributeError")
                   ELSE Returns(<<Quote(Upper(symbol), today, price.returned[1],
                                        Upper(currency.value), s_alpha_vantage)>>)

\* PriceService.fetch_crypto_quote.  payload.get, the get on "data",
\* coin.get and the upper of the coin's symbol raise AttributeError on a
\* value of another type.
fetch_crypto_quote(cfg, symbol, remote, today) ==
    IF ~TruthyStr(cfg.coinranking_key) THEN Returns(<<>>)
    ELSE LET response == HttpGetJson(remote) IN
         IF HasRaised(response) THEN response
         ELSE IF response.returned.type # "dict" THEN Raises("AttributeError")
         ELSE LET data == JGet(response.returned, k_data, JDict(EmptyDict)) IN
              IF data.type # "dict" THEN Raises("AttributeError")
              ELSE LET coin == JGet(data, k_coin, JNull) IN
                   IF ~JTruthy(coin) THEN Returns(<<>>)
                   ELSE IF coin.type # "dict" THEN Raises("AttributeError")
                   ELSE LET price == FloatOr(JGet(coin, k_coin_price, JNull))
                            coin_symbol == JGet(coin, k_symbol, JStr(symbol))
                            currency == JGet(coin, k_symbol, JStr(USD))
                        IN
                        IF HasRaised(price) \/ price.returned = <<>> THEN price
                        ELSE IF coin_symbol.type # "str" THEN Raises("AttributeError")
                        ELSE Returns(<<Quote(Upper(coin_symbol.value), today,
                                             price.returned[1], Upper(currency.value),
                                             s_coinranking)>>)

\* ------------------------------------------------------------------
\* backend/database.py: the table `quotes`
\* ------------------------------------------------------------------
QuoteParams(q) ==
    [symbol |-> Upper(q.symbol),
     valuation_date |-> isoformat_date(q.valuation_date),
     price |-> SqlReal(q.price),
     currency |-> Upper(q.currency),
     source |-> q.source]

\* UNIQUE(symbol, valuation_date, source)
QuoteKey(row) == <<row.symbol, row.valuation_date, row.source>>

\* SQLiteRepository.log_quotes: INSERT OR REPLACE INTO quotes, per quote; a
\* NULL price violates NOT NULL and sqlite3 raises IntegrityError, the rows
\* written before it staying on the connection.
RECURSIVE log_quotes(_, _)
log_quotes(table, qs) ==
    IF qs = <<>> THEN [table |-> table, raised |-> ""]
    ELSE LET row == QuoteParams(Head(qs))
         IN  IF row.price = None THEN [table |-> table, raised |-> "IntegrityError"]
             ELSE log_quotes({r \in table : QuoteKey(r) # QuoteKey(row)} \cup {row}, Tail(qs))

\* ------------------------------------------------------------------
\* backend/services.py: refresh_fx_rate, refresh_equity_quote,
\* refresh_crypto_quote
\* SpecMarket: any sequence of refresh calls against any remote behaviour
\* ------------------------------------------------------------------
MaxRefresh == 2

s_key == <<"k","e","y">>

s_aapl == <<"a","a","p","l">>

s_btc_uuid == <<"Q","w","s","o","g","v","t","v","8","2","F","C","d">>

s_btc == <<"B","T","C">>

s_1_10 == <<"1",".","1","0">>

Configs == {[alpha_vantage_key |-> a, coinranking_key |-> c] : a, c \in {None, s_key}}

\* The remote service: unreachable, timing out, answering with an error
\* status, or answering 200 with one of the bodies.
Failures == {Remote("ConnectionError", 0, JNull), Remote("Timeout", 0, JNull),
             Remote("ok", 500, JDict(EmptyDict))}

FxRemotes ==
    Failures \cup {Remote("ok", 200, body) : body \in
        {JDict(EmptyDict), JNull, JStr(s_abc),
         JDict(k_realtime :> JStr(s_abc)),
         JDict(k_realtime :> JDict(EmptyDict)),
         JDict(k_realtime :> JDict(k_exchange_rate :> JNull)),
         JDict(k_realtime :> JDict(k_exchange_rate :> JDict(EmptyDict))),
         JDict(k_realtime :> JDict(k_exchange_rate :> JStr(s_abc))),
         JDict(k_realtime :> JDict(k_exchange_rate :> JStr(s_nan))),
         JDict(k_realtime :> JDict(k_exchange_rate :> JStr(s_1_10)))}}
    \cup {Remote("ok", 600, JDict(k_realtime :> JDict(k_exchange_rate :> JStr(s_1_10))))}

EquityRemotes ==
    Failures \cup {Remote("ok", 200, body) : body \in
        {JDict(EmptyDict), JNull,
         JDict(k_global_quote :> JDict(EmptyDict)),
         JDict(k_global_quote :> JStr(s_abc)),
         JDict(k_global_quote :> JDict(k_price :> JStr(s_abc))),
         JDict(k_global_quote :> JDict(k_price :> JStr(s_nan))),
         JDict(k_global_quote :> JDict(k_price :> JStr(s_1_10))),
         JDict(k_global_quote :> JDict((k_price :> JStr(s_1_10)) @@ (k_currency :> JStr(s_chf_lower)))),
         JDict(k_global_quote :> JDict((k_price :> JStr(s_1_10)) @@ (k_currency :> JNull))),
         JDict(k_global_quote :> JDict((k_price :> JStr(s_abc)) @@ (k_currency :> JNull)))}}

CryptoRemotes ==
    Failures \cup {Remote("ok", 200, body) : body \in
        {JDict(EmptyDict), JStr(s_abc),
         JDict(k_data :> JDict(EmptyDict)),
         JDict(k_data :> JNull),
         JDict(k_data :> JStr(<<>>)),
         JDict(k_data :> JDict(k_coin :> JDict(EmptyDict))),
         JDict(k_data :> JDict(k_coin :> JStr(s_abc))),
         JDict(k_data :> JDict(k_coin :> JDict(k_symbol :> JStr(s_btc)))),
         JDict(k_data :> JDict(k_coin :> JDict(k_coin_price :> JStr(s_1_10)))),
         JDict(k_data :> JDict(k_coin :> JDict(k_coin_price :> JStr(s_nan)))),
         JDict(k_data :> JDict(k_coin :> JDict((k_coin_price :> JStr(s_1_10)) @@ (k_symbol :> JStr(s_btc))))),
         JDict(k_data :> JDict(k_coin :> JDict((k_coin_price :> JStr(s_1_10)) @@ (k_symbol :> JNull))))}}

InitMarket ==
    /\ config \in Configs
    /\ fx_rates = {}
    /\ fx_upserted = <<>>
    /\ fx_replaced = {}
    /\ quotes = {}
    /\ call = <<>>
    /\ outcome = None
    /\ calls = 0
    /\ pc = "idle"
    /\ record = None
    /\ classification = None
    /\ normalised = None
    /\ transactions = {}
    /\ upserted = <<>>
    /\ replaced = {}
    /\ uuid_issued = 0
    /\ clock = 0
    /\ persisted = 0

\* PortfolioService.refresh_fx_rate(base, quote)
RefreshFxRate ==
    /\ calls < MaxRefresh
    /\ \E quote \in {USD, s_usd_lower}, remote \in FxRemotes, today \in 1..MaxDay :
      \E rate \in {fetch_latest_fx_rate(config, CHF, quote, remote, today)} :
        LET stored == ~HasRaised(rate) /\ rate.returned # <<>>
            h == ReplayFx([upserted |-> fx_upserted, replaced |-> fx_replaced],
                          IF stored THEN rate.returned ELSE <<>>)
            done == upsert_fx_rates(fx_rates, IF stored THEN rate.returned ELSE <<>>)
        IN  /\ call' = <<"refresh_fx_rate", remote, CHF, quote>>
            /\ outcome' = IF done.raised # "" THEN Raises(done.raised) ELSE rate
            /\ fx_rates' = done.table
            /\ fx_upserted' = h.upserted
            /\ fx_replaced' = h.replaced
    /\ calls' = calls + 1
    /\ UNCHANGED <<recordVars, repoVars, quotes, config>>
    /\ UNCHANGED <<uuid_issued, clock, persisted>>

\* PortfolioService.refresh_equity_quote(symbol)
RefreshEquityQuote ==
    /\ calls < MaxRefresh
    /\ \E remote \in EquityRemotes, today \in 1..MaxDay :
      \E quote \in {fetch_equity_quote(config, s_aapl, remote, today)} :
        LET stored == ~HasRaised(quote) /\ quote.returned # <<>>
            done == log_quotes(quotes, IF stored THEN quote.returned ELSE <<>>)
        IN  /\ call' = <<"refresh_equity_quote", remote, s_aapl>>
            /\ outcome' = IF done.raised # "" THEN Raises(done.raised) ELSE quote
            /\ quotes' = done.table
    /\ calls' = calls + 1
    /\ UNCHANGED <<recordVars, repoVars, fx_rates, fx_upserted, fx_replaced, config>>
    /\ UNCHANGED <<uuid_issued, clock, persisted>>

\* PortfolioService.refresh_crypto_quote(symbol)
RefreshCryptoQuote ==
    /\ calls < MaxRefresh
    /\ \E remote \in CryptoRemotes, today \in 1..MaxDay :
      \E quote \in {fetch_crypto_quote(config, s_btc_uuid, remote, today)} :
        LET stored == ~HasRaised(quote) /\ quote.returned # <<>>
            done == log_quotes(quotes, IF stored THEN quote.returned ELSE <<>>)
        IN  /\ call' = <<"refresh_crypto_quote", remote, s_btc_uuid>>
            /\ outcome' = IF done.raised # "" THEN Raises(done.raised) ELSE quote
            /\ quotes' = done.table
    /\ calls' = calls + 1
    /\ UNCHANGED <<recordVars, repoVars, fx_rates, fx_upserted, fx_replaced, config>>
    /\ UNCHANGED <<uuid_issued, clock, persisted>>

NextMarket == RefreshFxRate \/ RefreshEquityQuote \/ RefreshCryptoQuote

SpecMarket == InitMarket /\ [][NextMarket]_vars

\* ------------------------------------------------------------------
\* Claims on the market data (SpecMarket)
\* ------------------------------------------------------------------
\* The key the operation needs is missing.
CredentialsMissing(operation) ==
    IF operation = "refresh_crypto_quote" THEN ~TruthyStr(config.coinranking_key)
    ELSE ~TruthyStr(config.alpha_vantage_key)

\* The remote service is unreachable or answers with an error (a status of
\* the classes 4xx and 5xx).
RemoteFails(remote) == remote.get # "ok" \/ (remote.status >= 400 /\ remote.status < 600)

\* C18: when the credentials are missing or the remote service is
\* unreachable or answers with an error, the fetch returns the unavailable
\* result instead of raising, and the refresh leaves the FX and quote
\* stores unchanged.
C18_UnavailableNotRaised ==
    [][(/\ calls' = calls + 1
        /\ CredentialsMissing(call'[1]) \/ RemoteFails(call'[2]))
       => /\ ~HasRaised(outcome')
          /\ outcome'.returned = <<>>
          /\ fx_rates' = fx_rates
          /\ quotes' = quotes]_vars

\* ------------------------------------------------------------------
\* backend/importers.py: BankExcelImporter.load
\* SpecLoad: any sequence of load calls on the workbook
\* ------------------------------------------------------------------
MaxLoads == 2

InitLoad == InitImport

\* importer.load(sheet_names): the pair (transactions, raw_lookup) returned,
\* or the exception raised; nothing is persisted.
Load ==
    /\ calls < MaxLoads
    /\ \E sheet_names \in SheetLists, ticks \in Ticks(clock, MaxSheets) :
        LET loaded == load(sheet_names, uuid_issued, clock, ticks)
        IN  /\ call' = sheet_names
            /\ calls' = calls + 1
            /\ clock' = loaded.clock
            /\ uuid_issued' = loaded.issued
            /\ outcome' = IF loaded.raised # "" THEN Raises(loaded.raised)
                          ELSE Returns(<<loaded.transactions, loaded.raw_lookup>>)
    /\ UNCHANGED <<recordVars, repoVars, marketVars, persisted>>

NextLoad == Load

SpecLoad == InitLoad /\ [][NextLoad]_vars

\* ------------------------------------------------------------------
\* Claims on the load (SpecLoad)
\* ------------------------------------------------------------------
\* The data rows of the requested sheets, as <<sheet, row number>>, in
\* requested sheet order and then row order.
RECURSIVE DataRows(_)
DataRows(sheet_names) ==
    IF sheet_names = <<>> THEN <<>>
    ELSE [i \in 1..Len(Workbook[Head(sheet_names)].data) |-> <<Head(sheet_names), i>>]
         \o DataRows(Tail(sheet_names))

\* The payload holds every column of the row (under its stripped name) with
\* the cell as read, an empty string standing for a null cell.
IsVerbatim(payload, sheet, i) ==
    LET df == Workbook[sheet]
    IN  /\ DOMAIN payload = {Strip(df.columns[j]) : j \in DOMAIN df.columns}
        /\ \A j \in DOMAIN df.columns :
              payload[Strip(df.columns[j])] =
                  IF df.data[i][j] = NaN THEN <<>> ELSE df.data[i][j]

Loaded == calls >= 1 /\ ~HasRaised(outcome)

\* C21: a successful load returns one normalised transaction per data row,
\* in requested sheet order and then row order, and a lookup whose keys are
\* exactly the stringified identifiers of those transactions, each mapped
\* to the payload of its own row: every column present, null cells as
\* empty strings.
C21_LoadResult ==
    Loaded =>
        LET txs == outcome.returned[1]
            lookup == outcome.returned[2]
            rows == DataRows(call)
        IN  /\ Len(txs) = Len(rows)
            /\ DOMAIN lookup = {UuidStr(txs[k].id) : k \in DOMAIN txs}
            /\ Cardinality(DOMAIN lookup) = Len(txs)
            /\ \A k \in DOMAIN txs :
                  /\ txs[k].sheet_name = rows[k][1]
                  /\ IsVerbatim(lookup[UuidStr(txs[k].id)], rows[k][1], rows[k][2])

\* C21 witness: the second load, of the two sheets in the order opposite to
\* the workbook's, returned three transactions, the payload of the first
\* holding an empty string for a null cell.
C21_Witness ==
    /\ calls = 2
    /\ call = <<sheet_stocks, sheet_crypto>>
    /\ Loaded
    /\ Len(outcome.returned[1]) = 3
    /\ outcome.returned[1][1].sheet_name = sheet_stocks
    /\ outcome.returned[2][UuidStr(outcome.returned[1][2].id)][col_amount_chf] = <<>>

\* The currency cell of the row is blank: null (an empty string in the
\* payload) or made of whitespace.
BlankCurrencyCell(payload) ==
    /\ col_transac_currency \in DOMAIN payload
    /\ Strip(payload[col_transac_currency]) = <<>>

\* C22: a row whose currency cell is blank is normalised with transaction
\* currency "CHF" and with an absent native amount, whatever its FX rate.
C22_BlankCurrency ==
    Loaded =>
        LET txs == outcome.returned[1]
            lookup == outcome.returned[2]
        IN  \A k \in DOMAIN txs :
                BlankCurrencyCell(lookup[UuidStr(txs[k].id)])
                    => /\ txs[k].transaction_currency = CHF
                       /\ txs[k].amount_native = None

\* ------------------------------------------------------------------
\* SpecAmounts: the classifier and the normaliser on records whose debit
\* and credit take every sign, with and without an explicit amount_chf
\* ------------------------------------------------------------------
AmountInputs ==
    {BankTransactionRecord(1, sheet_crypto, acct_main, a, d, c, CHF, None, desc, c_food, <<>>) :
        a \in {None, F(-9000)},
        d \in {None, F(0), F(4500), F(-4500), NaN},
        c \in {None, F(0), F(12050), F(-12050), NaN},
        desc \in {d_acme, d_frais}}

InitAmounts ==
    /\ record \in AmountInputs
    /\ classification = None
    /\ normalised = None
    /\ pc = "record"
    /\ transactions = {}
    /\ upserted = <<>>
    /\ replaced = {}
    /\ uuid_issued = 0
    /\ clock = 0
    /\ call = <<>>
    /\ outcome = None
    /\ calls = 0
    /\ persisted = 0
    /\ MarketIdle

SpecAmounts == InitAmounts /\ [][NextRecord]_vars

\* ------------------------------------------------------------------
\* Claims on the sign of the derived amount (SpecAmounts)
\* ------------------------------------------------------------------
\* x is a number greater than zero (absent and nan are not).
Positive(x) == x # None /\ x # NaN /\ x[2] > 0

Negative(x) == x # None /\ x # NaN /\ x[2] < 0

\* C23: for a record whose amount_chf is absent, a DEPOSIT has a strictly
\* positive signed CHF amount and a WITHDRAWAL a strictly negative one; a
\* record with both credit > 0 and debit > 0, or with neither positive, is
\* neither DEPOSIT nor WITHDRAWAL.
C23_TypeAndSign ==
    (pc = "normalised" /\ record.amount_chf = None) =>
        /\ normalised.inferred_type = "DEPOSIT" => Positive(normalised.amount_chf)
        /\ normalised.inferred_type = "WITHDRAWAL" => Negative(normalised.amount_chf)
        /\ (Positive(record.credit) <=> Positive(record.debit))
               => normalised.inferred_type \notin {"DEPOSIT", "WITHDRAWAL"}

\* C23 witness: a withdrawal whose amount is derived from the debit.
C23_Witness ==
    /\ pc = "normalised"
    /\ record.amount_chf = None
    /\ record.debit = F(4500)
    /\ record.credit = None
    /\ normalised.inferred_type = "WITHDRAWAL"
    /\ normalised.amount_chf = F(-4500)
====
